---- MODULE Spec2Model ----
(***************************************************************************)
(* One-way calendar mirror: Home Assistant (source) -> Office 365          *)
(* (destination).  The module models CalendarSync.sync (sync.py), the      *)
(* identity codec and get_synced_events of Office365Client                 *)
(* (o365_client.py) and the event normalisation of HomeAssistantClient     *)
(* (ha_client.py).                                                         *)
(*                                                                         *)
(* Strings are sequences of tokens.  A token is a character or a short     *)
(* literal of the source ("HA_UID:"); Python's str operations (startswith, *)
(* in, strip, re.search) are modelled on those sequences.                  *)
(***************************************************************************)
EXTENDS Naturals, Sequences, FiniteSets, TLC

\* ------------------------------------------------------------------------
\* State
\* ------------------------------------------------------------------------

VARIABLES
    delete_removed,  \* CalendarSync.delete_removed (sync.delete_removed_events)
    ha_server,       \* the raw events each source calendar holds, by calendar index
    o365_store,      \* the events of the destination calendar, in calendar-view order
    next_id,         \* number of the next object_id the destination hands out
    pc,              \* where sync() stands
    idx,             \* position of the running for loop of sync()
    ha_events,       \* sync(): ha_events
    o365_events,     \* sync(): o365_events
    created,         \* sync(): created
    updated,         \* sync(): updated
    deleted,         \* sync(): deleted
    result,          \* what sync() returned: "none" while it runs, "ok" (True), "failed" (False)
    calls,           \* create_event / update_event / delete_event calls of this pass, in order
    store0,          \* the destination calendar as it was when this pass started
    src0,            \* the source calendars as they were when this pass started
    repeat,          \* this pass follows a pass that returned True over the same source
    passes,          \* passes started so far
    edits,           \* edits made to the source so far
    interactive,     \* CalendarSync.interactive (--interactive)
    invoked,         \* the client methods sync() has called in this pass
    exit_code,       \* the code the process exited with, "none" while it runs
    failed_at,       \* the step of sync() whose call failed in this pass, "none" if none has
    window,          \* <<start_date, end_date>> handed to the latest get_events / get_synced_events
    pass_now,        \* the time at which this pass was entered
    loop,            \* where run_continuous stands; "none" when sync() is called directly
    sync_count,      \* run_continuous: sync_count
    now,             \* the clock (seconds)
    start_date,      \* CalendarSync.start_date
    end_date,        \* CalendarSync.end_date
    ev_body,         \* codec: event.body
    ev_id,           \* codec: event.object_id
    ev_uid,          \* codec: the uid handed to _set_event_uid
    ev_body0,        \* codec: event.body before the first _set_event_uid
    ev_prev,         \* codec: event.body before the latest _set_event_uid
    ev_sets,         \* codec: how often _set_event_uid has run on the event
    ev_decoded,      \* codec: <<what _get_event_uid returned>>, << >> before it is called
    nz_batch,        \* normalizer: the raw events of one response of the source
    nz_result,       \* normalizer: how get_events ended and the events it returned
    cl_calendar,     \* Office365Client.calendar is set
    cl_token,        \* Office365Client.account.is_authenticated
    cl_lookup,       \* some authenticate() call has reached the calendar lookup
    cl_log,          \* Office365Client: the operations called so far, with their outcome
    st_kind,         \* which CalendarStore lies under the scoped stores
    st_disk,         \* what the Store of Home Assistant holds for the entry, and whether a delayed save is due
    st_data,         \* InMemoryCalendarStore._data or LocalCalendarStore._data
    st_task,         \* the async_load / async_save calls made on the scoped stores, in order
    confirm          \* delete_all_synced_events: the answer to the prompt, "none" if not asked

\* ------------------------------------------------------------------------
\* Bounds of the model
\* ------------------------------------------------------------------------

\* longest description drawn for the identity codec
MaxBodyLen == 3
\* longest uid drawn for the identity codec
MaxUidLen == 2
\* most raw events the source holds, over all its calendars
MaxSrc == 2
\* most events the destination holds before the first pass
MaxDest == 2
\* most sync passes of one run
MaxPasses == 2
\* most edits made to the source calendars between passes
MaxEdits == 1

\* ------------------------------------------------------------------------
\* Strings
\* ------------------------------------------------------------------------

EmptyStr == << >>

\* characters removed by str.strip()
Whitespace == {" ", "\n"}

\* s.startswith(p)
StartsWith(s, p) == Len(p) <= Len(s) /\ SubSeq(s, 1, Len(p)) = p

\* p in s  (substring test)
Contains(s, p) ==
    \E i \in 1..(Len(s) + 1) : i + Len(p) - 1 <= Len(s) /\ SubSeq(s, i, i + Len(p) - 1) = p

\* truth value of s.strip(): some character is not whitespace
StripNonEmpty(s) == \E i \in 1..Len(s) : s[i] \notin Whitespace

\* all sequences over alphabet a of length at most n
SeqUpTo(a, n) == UNION {[1..m -> a] : m \in 0..n}

\* ------------------------------------------------------------------------
\* Identity codec (o365_client.py)
\* ------------------------------------------------------------------------

\* f"[HA_UID:{uid}]"
UidMarker(uid) == <<"[", "HA_UID:">> \o uid \o <<"]">>

\* position of the first "]" of body at or after position from, 0 if none
FirstClose(body, from) ==
    IF \E j \in from..Len(body) : body[j] = "]"
    THEN CHOOSE j \in from..Len(body) :
            body[j] = "]" /\ \A h \in from..(j - 1) : body[h] # "]"
    ELSE 0

\* the regular expression \[HA_UID:([^\]]+)\] matches at position i
MatchAt(body, i) ==
    /\ i + 1 <= Len(body)
    /\ body[i] = "["
    /\ body[i + 1] = "HA_UID:"
    /\ FirstClose(body, i + 2) > i + 2

\* re.search: is there a match
ReSearchFound(body) == \E i \in 1..Len(body) : MatchAt(body, i)

\* re.search(...).group(1): the group of the leftmost match
ReSearchGroup(body) ==
    LET i == CHOOSE p \in 1..Len(body) :
                MatchAt(body, p) /\ \A q \in 1..(p - 1) : ~MatchAt(body, q)
    IN  SubSeq(body, i + 2, FirstClose(body, i + 2) - 1)

\* _set_event_uid with the "not in" test left out (a mutant of SetEventUid)
SetEventUidAppendsAlways(body, uid) ==
    IF StripNonEmpty(body) THEN body \o <<"\n", "\n">> \o UidMarker(uid) ELSE UidMarker(uid)

\* Office365Client._set_event_uid: the body of the event afterwards
SetEventUid(body, uid) ==
    IF ~Contains(body, UidMarker(uid))
    THEN IF StripNonEmpty(body)
         THEN body \o <<"\n", "\n">> \o UidMarker(uid)
         ELSE UidMarker(uid)
    ELSE body

\* _get_event_uid without the object_id fallback (a mutant of GetEventUid)
GetEventUidNoFallback(body, object_id) ==
    IF body # EmptyStr /\ ReSearchFound(body) THEN ReSearchGroup(body) ELSE EmptyStr

\* Office365Client._get_event_uid on an event with this body and object_id
GetEventUid(body, object_id) ==
    IF body # EmptyStr /\ ReSearchFound(body)
    THEN ReSearchGroup(body)
    ELSE object_id

\* ------------------------------------------------------------------------
\* Configuration (config.yaml, sync.ha_calendars) and calendar prefixes
\* ------------------------------------------------------------------------

LowerLetters == <<"a", "b", "c", "d", "e", "i", "l", "n", "o", "r", "z">>
UpperLetters == <<"A", "B", "C", "D", "E", "I", "L", "N", "O", "R", "Z">>

\* str.upper / str.lower on one character
UpperChar(c) ==
    IF \E n \in 1..Len(LowerLetters) : LowerLetters[n] = c
    THEN UpperLetters[CHOOSE n \in 1..Len(LowerLetters) : LowerLetters[n] = c]
    ELSE c

LowerChar(c) ==
    IF \E n \in 1..Len(UpperLetters) : UpperLetters[n] = c
    THEN LowerLetters[CHOOSE n \in 1..Len(UpperLetters) : UpperLetters[n] = c]
    ELSE c

\* str.capitalize(): first character upper case, the rest lower case
Capitalize(s) == [n \in 1..Len(s) |-> IF n = 1 THEN UpperChar(s[n]) ELSE LowerChar(s[n])]

\* the configured source calendars: "calendar.ian" and "bob"
HaCalendars ==
    << <<"c", "a", "l", "e", "n", "d", "a", "r", ".", "i", "a", "n">>,
       <<"b", "o", "b">> >>

\* calendar_id.split(".")[-1] if "." in calendar_id else calendar_id
CalendarName(calendar_id) ==
    LET dots == {n \in 1..Len(calendar_id) : calendar_id[n] = "."}
        last == IF dots = {} THEN 0
                ELSE CHOOSE n \in dots : \A m \in dots : m <= n
    IN  SubSeq(calendar_id, last + 1, Len(calendar_id))

\* f"[{calendar_name.capitalize()}]"
CalendarPrefix(calendar_id) == <<"[">> \o Capitalize(CalendarName(calendar_id)) \o <<"]">>

\* calendar_prefixes once every configured calendar has been visited
CalendarPrefixes == {CalendarPrefix(HaCalendars[n]) : n \in 1..Len(HaCalendars)}

\* event.subject and any(event.subject.startswith(prefix) for prefix in prefixes)
HasSyncPrefix(subject, prefixes) ==
    subject # EmptyStr /\ \E p \in prefixes : StartsWith(subject, p)

\* ------------------------------------------------------------------------
\* Source events (ha_client.py)
\* ------------------------------------------------------------------------

\* A raw start or end is [shape, at]: the form of the value in the payload and
\* the instant its text denotes. The dict forms are {"date": ...} ("date"),
\* {"dateTime": ...} ("dateTime"), both keys ("both"), {} ("dict_empty") and
\* {"dateTime": <no timestamp>} ("dict_bad"); the string forms are a date
\* ("str_date"), a date and time ("str_dateTime"), "" ("str_empty") and a
\* string that is no timestamp ("str_bad"); "native" is a datetime instance
\* and "missing" a field the event does not have.
DictShapes == {"date", "dateTime", "both", "dict_empty", "dict_bad"}

\* isinstance(dt_value, dict)
IsDict(dt_value) == dt_value.shape \in DictShapes

\* lines 131-135: dt_value.get("dateTime") or dt_value.get("date") of a dict,
\* else dt_value itself; what kind of text that is ("" when it is falsy)
DtStr(dt_value) ==
    CASE dt_value.shape \in {"dateTime", "both", "str_dateTime"} -> "date_time"
      [] dt_value.shape \in {"date", "str_date"}                -> "date_only"
      [] dt_value.shape \in {"dict_bad", "str_bad"}             -> "no_timestamp"
      [] OTHER                                                  -> ""

\* HomeAssistantClient._parse_datetime: a datetime instance is kept (lines
\* 117-129); a falsy dt_str gives datetime.now (137-138); parser.parse gives
\* the instant of the text (141-156) and its exception gives datetime.now
\* (158-160)
ParseDatetime(dt_value) ==
    IF dt_value.shape = "native" THEN dt_value.at
    ELSE IF DtStr(dt_value) = "" THEN now
    ELSE IF DtStr(dt_value) = "no_timestamp" THEN now
    ELSE dt_value.at

\* HomeAssistantClient._is_all_day_event: for a dict, "date" in start and
\* "dateTime" not in start; False for everything else
IsAllDayEvent(raw) ==
    IF IsDict(raw.start) THEN raw.start.shape = "date" ELSE FALSE

\* HomeAssistantClient._normalize_event; event.get("uid", "") of a raw event
\* that has no uid field is the empty string
NormalizeHaEvent(raw) ==
    [uid         |-> IF raw.has_uid THEN raw.uid ELSE EmptyStr,
     summary     |-> raw.summary,
     description |-> raw.description,
     start       |-> ParseDatetime(raw.start),
     end         |-> ParseDatetime(raw.end),
     all_day     |-> IsAllDayEvent(raw)]

\* HomeAssistantClient.get_events: the normalized events of one calendar, in order
NormalizeAll(raws) == [n \in 1..Len(raws) |-> NormalizeHaEvent(raws[n])]

\* ------------------------------------------------------------------------
\* Python dicts keyed by uid, as sequences in insertion order
\* ------------------------------------------------------------------------

DictKeys(d) == {d[n].uid : n \in 1..Len(d)}

DictGet(d, uid) == d[CHOOSE n \in 1..Len(d) : d[n].uid = uid]

\* d[e.uid] = e with an entry already there left alone (a mutant of DictPut)
DictPutKeepFirst(d, e) == IF e.uid \in DictKeys(d) THEN d ELSE Append(d, e)

\* d[e.uid] = e: an existing key keeps its place and takes the new value
DictPut(d, e) ==
    IF e.uid \in DictKeys(d)
    THEN [n \in 1..Len(d) |-> IF d[n].uid = e.uid THEN e ELSE d[n]]
    ELSE Append(d, e)

\* sync.py lines 101-104: tag each event of one calendar and merge it
RECURSIVE MergeEvents(_, _, _)
MergeEvents(d, events, prefix) ==
    IF events = << >> THEN d
    ELSE MergeEvents(DictPut(d, [uid             |-> Head(events).uid,
                                 summary         |-> Head(events).summary,
                                 description     |-> Head(events).description,
                                 start           |-> Head(events).start,
                                 all_day         |-> Head(events).all_day,
                                 calendar_prefix |-> prefix]),
                     Tail(events), prefix)

\* ------------------------------------------------------------------------
\* Destination calendar (o365_client.py)
\* ------------------------------------------------------------------------

\* object_id of the n-th event the destination ever stored
ObjectId(n) == <<"id", ToString(n)>>

\* Office365Client._normalize_event
NormalizeO365Event(event) ==
    [id          |-> event.object_id,
     uid         |-> GetEventUid(event.body, event.object_id),
     summary     |-> event.subject,
     description |-> event.body,
     start       |-> event.start,
     all_day     |-> event.is_all_day]

\* get_synced_events with the prefix test left out (a mutant of IsSyncedEvent)
IsSyncedEventAnyTitle(event, prefixes) == TRUE

\* get_synced_events line 174: the event carries one of the prefixes
IsSyncedEvent(event, prefixes) == HasSyncPrefix(event.subject, prefixes)

\* get_synced_events with a uid already in the map passed over (a mutant of
\* GetSyncedEvents)
RECURSIVE GetSyncedEventsKeepFirst(_, _, _)
GetSyncedEventsKeepFirst(synced, events, prefixes) ==
    IF events = << >> THEN synced
    ELSE LET event == Head(events)
             uid   == GetEventUid(event.body, event.object_id)
         IN  GetSyncedEventsKeepFirst(
                 IF IsSyncedEvent(event, prefixes) /\ uid # EmptyStr /\ uid \notin DictKeys(synced)
                 THEN Append(synced, NormalizeO365Event(event))
                 ELSE synced,
                 Tail(events), prefixes)

\* Office365Client.get_synced_events lines 158-189 over the events the
\* calendar view returned
RECURSIVE GetSyncedEvents(_, _, _)
GetSyncedEvents(synced, events, prefixes) ==
    IF events = << >> THEN synced
    ELSE LET event == Head(events)
             uid   == GetEventUid(event.body, event.object_id)
         IN  GetSyncedEvents(
                 IF IsSyncedEvent(event, prefixes) /\ uid # EmptyStr
                 THEN DictPut(synced, NormalizeO365Event(event))
                 ELSE synced,
                 Tail(events), prefixes)

\* create_event with event.save() ahead of _set_event_uid (a mutant of NewEvent)
NewEventSavedBeforeUid(object_id, data, uid) ==
    [object_id  |-> object_id,
     subject    |-> data.summary,
     body       |-> data.description,
     start      |-> data.start,
     is_all_day |-> data.all_day]

\* Office365Client._populate_event then _set_event_uid on calendar.new_event()
NewEvent(object_id, data, uid) ==
    [object_id  |-> object_id,
     subject    |-> data.summary,
     body       |-> SetEventUid(data.description, uid),
     start      |-> data.start,
     is_all_day |-> data.all_day]

\* Office365Client.create_event: the calendar after event.save()
CreateEvent(store, object_id, data, uid) == Append(store, NewEvent(object_id, data, uid))

\* Office365Client.update_event: _populate_event on the stored event, then save;
\* is_all_day is only ever set, never cleared
UpdateEvent(store, event_id, data) ==
    [n \in 1..Len(store) |->
        IF store[n].object_id = event_id
        THEN [object_id  |-> event_id,
              subject    |-> data.summary,
              body       |-> data.description,
              start      |-> data.start,
              is_all_day |-> store[n].is_all_day \/ data.all_day]
        ELSE store[n]]

\* Office365Client.delete_event: the calendar after event.delete()
RECURSIVE DeleteEvent(_, _)
DeleteEvent(store, event_id) ==
    IF store = << >> THEN << >>
    ELSE IF Head(store).object_id = event_id
         THEN DeleteEvent(Tail(store), event_id)
         ELSE <<Head(store)>> \o DeleteEvent(Tail(store), event_id)

\* ------------------------------------------------------------------------
\* Reconciliation (sync.py)
\* ------------------------------------------------------------------------

\* an update predicate that compares the start times (a mutant of EventNeedsUpdate)
EventNeedsUpdateByStart(ha_event, o365_event) == ha_event.start # o365_event.start

\* CalendarSync._event_needs_update
EventNeedsUpdate(ha_event, o365_event) == FALSE

\* lines 137-150 with a source event of empty uid passed over (a mutant of
\* ReconcileDecision)
ReconcileDecisionSkipEmptyUid(ha_event, synced) ==
    IF ha_event.uid = EmptyStr THEN "skip"
    ELSE IF ha_event.uid \in DictKeys(synced) THEN "skip" ELSE "create"

\* lines 137-150: what the loop does with one source event
ReconcileDecision(ha_event, synced) ==
    IF ha_event.uid \in DictKeys(synced)
    THEN IF EventNeedsUpdate(ha_event, DictGet(synced, ha_event.uid)) THEN "update" ELSE "skip"
    ELSE "create"

\* line 153 with the flag ignored (a mutant of DeletionEnabled)
DeletionAlways(flag) == TRUE

\* line 153: if self.delete_removed
DeletionEnabled(flag) == flag

\* line 155 with the membership test left out (a mutant of DeleteWanted)
DeleteWantedAlways(o365_event, source) == TRUE

\* line 155 with the test never passing (a mutant of DeleteWanted)
DeleteWantedNever(o365_event, source) == FALSE

\* line 155: if uid not in ha_events
DeleteWanted(o365_event, source) == o365_event.uid \notin DictKeys(source)

\* line 76 with the flag ignored (a mutant of InteractiveReturns)
InteractiveReturnsNever(flag) == FALSE

\* line 76: if self.interactive, sync returns True once authenticated
InteractiveReturns(flag) == flag

\* f"{calendar_prefix} {ha_event['summary']}"
PrefixedSummary(ha_event) == ha_event.calendar_prefix \o <<" ">> \o ha_event.summary

\* ------------------------------------------------------------------------
\* State
\* ------------------------------------------------------------------------


syncVars == <<delete_removed, ha_server, o365_store, next_id, pc, idx, ha_events,
              o365_events, created, updated, deleted, result, calls, store0,
              src0, repeat, passes, edits, failed_at, window, interactive, invoked>>

loopVars == <<pass_now, loop, sync_count, now, start_date, end_date>>

codecVars == <<ev_body, ev_id, ev_uid, ev_body0, ev_prev, ev_sets, ev_decoded>>


normVars == <<nz_batch, nz_result>>

clientVars == <<cl_calendar, cl_token, cl_lookup, cl_log>>

storeVars == <<st_kind, st_disk, st_data, st_task>>

\* the variables of the other components
promptVars == <<confirm>>

compVars == <<normVars, clientVars, storeVars, promptVars>>

auxVars == <<exit_code, compVars>>

vars == <<syncVars, codecVars, loopVars, auxVars>>

\* ------------------------------------------------------------------------
\* Inputs
\* ------------------------------------------------------------------------

Uid_a == <<"a">>
Uid_b == <<"b">>

\* raw events the source calendars may hold
RawEvents ==
    { [has_uid |-> TRUE, uid |-> Uid_a, summary |-> <<"S">>, description |-> EmptyStr,
       start |-> [shape |-> "dateTime", at |-> 1],
       end |-> [shape |-> "dateTime", at |-> 2]],
      [has_uid |-> TRUE, uid |-> Uid_a, summary |-> <<"S">>, description |-> EmptyStr,
       start |-> [shape |-> "dateTime", at |-> 2],
       end |-> [shape |-> "dateTime", at |-> 3]],
      [has_uid |-> TRUE, uid |-> Uid_b, summary |-> <<"T">>, description |-> <<"d">>,
       start |-> [shape |-> "date", at |-> 1],
       end |-> [shape |-> "date", at |-> 2]],
      [has_uid |-> FALSE, uid |-> EmptyStr, summary |-> <<"N">>, description |-> EmptyStr,
       start |-> [shape |-> "dateTime", at |-> 1],
       end |-> [shape |-> "dateTime", at |-> 2]] }

\* events the destination calendar may hold before the first pass: the user's
\* own event, an event tagged for a calendar that is not configured, a mirror
\* of uid a, and a mirror made before uids were embedded
DestSeeds ==
    { [subject |-> <<"L">>, body |-> EmptyStr, start |-> 1, is_all_day |-> FALSE],
      [subject |-> <<"[", "Z", "e", "d", "]", " ", "S">>, body |-> UidMarker(Uid_a),
       start |-> 1, is_all_day |-> FALSE],
      [subject |-> <<"[", "I", "a", "n", "]", " ", "S">>, body |-> UidMarker(Uid_a),
       start |-> 1, is_all_day |-> FALSE],
      [subject |-> <<"[", "B", "o", "b", "]", " ", "T">>, body |-> <<"d">>,
       start |-> 1, is_all_day |-> TRUE] }

\* number of raw events over all source calendars
RECURSIVE SourceSize(_, _)
SourceSize(server, n) == IF n = 0 THEN 0 ELSE Len(server[n]) + SourceSize(server, n - 1)

SourceStates ==
    {f \in [1..Len(HaCalendars) -> SeqUpTo(RawEvents, MaxSrc)] :
        SourceSize(f, Len(HaCalendars)) <= MaxSrc}

StoreOf(seeds) ==
    [n \in 1..Len(seeds) |->
        [object_id  |-> ObjectId(n),
         subject    |-> seeds[n].subject,
         body       |-> seeds[n].body,
         start      |-> seeds[n].start,
         is_all_day |-> seeds[n].is_all_day]]

\* ------------------------------------------------------------------------
\* Initial states
\* ------------------------------------------------------------------------

\* the codec variables while the sync machine runs
CodecIdle ==
    /\ ev_body = EmptyStr
    /\ ev_id = EmptyStr
    /\ ev_uid = EmptyStr
    /\ ev_body0 = EmptyStr
    /\ ev_prev = EmptyStr
    /\ ev_sets = 0
    /\ ev_decoded = << >>

\* CalendarSync.__init__ over a source and a destination in any state
SyncInit ==
    /\ delete_removed \in BOOLEAN
    /\ ha_server \in SourceStates
    /\ \E seeds \in SeqUpTo(DestSeeds, MaxDest) :
          /\ o365_store = StoreOf(seeds)
          /\ next_id = Len(seeds) + 1
    /\ pc = "idle"
    /\ idx = 1
    /\ ha_events = << >>
    /\ o365_events = << >>
    /\ created = 0
    /\ updated = 0
    /\ deleted = 0
    /\ result = "none"
    /\ calls = << >>
    /\ store0 = << >>
    /\ src0 = ha_server
    /\ repeat = FALSE
    /\ passes = 0
    /\ edits = 0
    /\ failed_at = "none"
    /\ window = << >>
    /\ invoked = {}

\* timedelta(days=n), in seconds
Days(n) == n * 86400

\* config["sync"].get("days_past", 7) and config["sync"].get("days_future", 90)
days_past == 7
days_future == 90

\* the window of lines 53-55 for a clock reading t
WindowStart(t) == t - Days(days_past)
WindowEnd(t) == t + Days(days_future)

\* CalendarSync.__init__, lines 50-55: now = datetime.utcnow(), start_date, end_date
WindowInit ==
    /\ now = 0
    /\ pass_now = 0
    /\ start_date = WindowStart(now)
    /\ end_date = WindowEnd(now)

\* the normalizer on its own is not in use
NormIdle ==
    /\ nz_batch = << >>
    /\ nz_result = [status |-> "none", events |-> << >>]

\* the Office365Client on its own is not in use
ClientIdle ==
    /\ cl_calendar = FALSE
    /\ cl_token = FALSE
    /\ cl_lookup = FALSE
    /\ cl_log = << >>

\* the keys of the two scoped stores, and a key neither of them owns
ScopeKeys == {"k1", "k2"}
StoreKeys == ScopeKeys \cup {"k3"}

\* None where a dict over StoreKeys is expected
NoneDict == [k \in StoreKeys |-> "None"]

\* the calendar stores are not in use
StoreIdle ==
    /\ st_kind = "memory"
    /\ st_disk = [content |-> NoneDict, pending |-> FALSE]
    /\ st_data = NoneDict
    /\ st_task = << >>

\* nothing has been asked of the user
PromptIdle == confirm = "none"

CompIdle == NormIdle /\ ClientIdle /\ StoreIdle /\ PromptIdle

\* sync() is called directly, not from run_continuous
NoLoop ==
    /\ loop = "none"
    /\ sync_count = 0
    /\ interactive = FALSE
    /\ exit_code = "none"

Init == SyncInit /\ CodecIdle /\ WindowInit /\ NoLoop /\ CompIdle

\* ------------------------------------------------------------------------
\* One sync pass: CalendarSync.sync, non-interactive
\* ------------------------------------------------------------------------

\* an exception reaches "except Exception" (lines 164-166), or sync returns False
ReturnFalse ==
    /\ pc' = "done"
    /\ result' = "failed"
    /\ failed_at' = pc

\* sync() is entered
StartSync ==
    /\ \/ loop = "none" /\ pc \in {"idle", "done"}
       \/ loop = "call"
       \/ loop = "main" /\ pc = "idle"
    /\ passes < MaxPasses
    /\ loop' = IF loop = "call" THEN "sync" ELSE loop
    /\ pass_now' = now
    /\ window' = << >>
    /\ passes' = passes + 1
    /\ pc' = IF interactive THEN "authenticate" ELSE "test_connection"
    /\ invoked' = {}
    /\ idx' = 1
    /\ ha_events' = << >>
    /\ o365_events' = << >>
    /\ created' = 0
    /\ updated' = 0
    /\ deleted' = 0
    /\ result' = "none"
    /\ failed_at' = "none"
    /\ calls' = << >>
    /\ store0' = o365_store
    /\ src0' = ha_server
    /\ repeat' = (pc = "done" /\ result = "ok" /\ ha_server = src0)
    /\ UNCHANGED <<delete_removed, ha_server, o365_store, next_id, edits, codecVars,
                   sync_count, now, start_date, end_date>>
    /\ UNCHANGED <<interactive, auxVars>>

\* lines 63-67: ha_client.test_connection()
TestConnection ==
    /\ pc = "test_connection"
    /\ \E ok \in BOOLEAN :
          IF ok THEN pc' = "authenticate" /\ result' = result /\ failed_at' = failed_at
                ELSE ReturnFalse
    /\ UNCHANGED <<delete_removed, ha_server, o365_store, next_id, idx, ha_events,
                   o365_events, created, updated, deleted, calls, store0, src0, repeat, passes,
                   edits, codecVars, loopVars, window>>
    /\ invoked' = invoked \cup {"test_connection"}
    /\ UNCHANGED <<interactive, auxVars>>

\* lines 69-73 with the return value of authenticate() ignored (a mutant of
\* Authenticate)
AuthenticateIgnoresFailure ==
    /\ pc = "authenticate"
    /\ \E ok \in BOOLEAN :
          /\ pc' = "fetch_ha"
          /\ result' = result
          /\ failed_at' = IF ok THEN failed_at ELSE pc
    /\ UNCHANGED <<delete_removed, ha_server, o365_store, next_id, idx, ha_events,
                   o365_events, created, updated, deleted, calls, store0, src0, repeat, passes,
                   edits, codecVars, loopVars, window>>
    /\ invoked' = invoked \cup {"authenticate"}
    /\ UNCHANGED <<interactive, auxVars>>

\* lines 69-73: o365_client.authenticate()
Authenticate ==
    /\ pc = "authenticate"
    /\ \E ok \in BOOLEAN :
          IF ok
          THEN /\ failed_at' = failed_at
               /\ IF InteractiveReturns(interactive)
                  THEN pc' = "done" /\ result' = "ok"
                  ELSE pc' = "fetch_ha" /\ result' = result
          ELSE ReturnFalse
    /\ UNCHANGED <<delete_removed, ha_server, o365_store, next_id, idx, ha_events,
                   o365_events, created, updated, deleted, calls, store0, src0, repeat, passes,
                   edits, codecVars, loopVars, window>>
    /\ invoked' = invoked \cup {"authenticate"}
    /\ UNCHANGED <<interactive, auxVars>>

\* lines 88-108 with a failed get_events taken for an empty calendar (a mutant
\* of FetchHaCalendar)
FetchHaCalendarSwallowsError ==
    /\ window' = <<start_date, end_date>>
    /\ pc = "fetch_ha"
    /\ \E ok \in BOOLEAN :
          /\ ha_events' = IF ok
                          THEN MergeEvents(ha_events, NormalizeAll(ha_server[idx]),
                                           CalendarPrefix(HaCalendars[idx]))
                          ELSE ha_events
          /\ failed_at' = IF ok THEN failed_at ELSE pc
    /\ IF idx = Len(HaCalendars)
       THEN pc' = "fetch_o365" /\ idx' = 1
       ELSE pc' = pc /\ idx' = idx + 1
    /\ UNCHANGED <<delete_removed, ha_server, o365_store, next_id, o365_events, result,
                   created, updated, deleted, calls, store0, src0, repeat, passes, edits,
                   codecVars, loopVars>>
    /\ invoked' = invoked \cup {"get_events"}
    /\ UNCHANGED <<interactive, auxVars>>

\* lines 88-108: one calendar of the for loop over ha_calendars; get_events may raise
FetchHaCalendar ==
    /\ window' = <<start_date, end_date>>
    /\ pc = "fetch_ha"
    /\ \E ok \in BOOLEAN :
          IF ok
          THEN /\ ha_events' = MergeEvents(ha_events, NormalizeAll(ha_server[idx]),
                                           CalendarPrefix(HaCalendars[idx]))
               /\ IF idx = Len(HaCalendars)
                  THEN pc' = "fetch_o365" /\ idx' = 1
                  ELSE pc' = pc /\ idx' = idx + 1
               /\ result' = result /\ failed_at' = failed_at
          ELSE /\ ReturnFalse
               /\ UNCHANGED <<ha_events, idx>>
    /\ UNCHANGED <<delete_removed, ha_server, o365_store, next_id, o365_events,
                   created, updated, deleted, calls, store0, src0, repeat, passes, edits, codecVars, loopVars>>
    /\ invoked' = invoked \cup {"get_events"}
    /\ UNCHANGED <<interactive, auxVars>>

\* lines 112-119: o365_client.get_synced_events(); it may raise
FetchO365 ==
    /\ window' = <<start_date, end_date>>
    /\ pc = "fetch_o365"
    /\ \E ok \in BOOLEAN :
          IF ok
          THEN /\ o365_events' = GetSyncedEvents(<< >>, o365_store, CalendarPrefixes)
               /\ pc' = "reconcile"
               /\ result' = result /\ failed_at' = failed_at
          ELSE /\ ReturnFalse
               /\ UNCHANGED o365_events
    /\ idx' = 1
    /\ UNCHANGED <<delete_removed, ha_server, o365_store, next_id, ha_events,
                   created, updated, deleted, calls, store0, src0, repeat, passes, edits, codecVars, loopVars>>
    /\ invoked' = invoked \cup {"get_synced_events"}
    /\ UNCHANGED <<interactive, auxVars>>

\* lines 128-150: one iteration of the for loop over ha_events
ReconcileEvent ==
    /\ pc = "reconcile"
    /\ idx <= Len(ha_events)
    /\ LET uid      == ha_events[idx].uid
           ha_event == [ha_events[idx] EXCEPT !.summary = PrefixedSummary(ha_events[idx])]
           decision == ReconcileDecision(ha_event, o365_events)
       IN  /\ ha_events' = [ha_events EXCEPT ![idx] = ha_event]
           /\ IF decision # "create"
              THEN IF decision = "update"
                   THEN LET o365_event == DictGet(o365_events, uid)
                        IN  \E ok \in BOOLEAN :
                              /\ calls' = Append(calls, [op |-> "update", id |-> o365_event.id,
                                                         uid |-> uid, ok |-> ok])
                              /\ IF ok
                                 THEN /\ o365_store' = UpdateEvent(o365_store, o365_event.id, ha_event)
                                      /\ updated' = updated + 1
                                      /\ idx' = idx + 1
                                      /\ UNCHANGED <<pc, result, failed_at>>
                                 ELSE /\ ReturnFalse
                                      /\ UNCHANGED <<o365_store, updated, idx>>
                              /\ UNCHANGED <<next_id, created>>
                       ELSE /\ idx' = idx + 1
                            /\ UNCHANGED <<o365_store, next_id, created, updated, calls,
                                           pc, result, failed_at>>
              ELSE \E ok \in BOOLEAN :
                     /\ calls' = Append(calls, [op |-> "create",
                                                id |-> IF ok THEN ObjectId(next_id) ELSE EmptyStr,
                                                uid |-> uid, ok |-> ok])
                     /\ IF ok
                        THEN /\ o365_store' = CreateEvent(o365_store, ObjectId(next_id), ha_event, uid)
                             /\ next_id' = next_id + 1
                             /\ created' = created + 1
                             /\ idx' = idx + 1
                             /\ UNCHANGED <<pc, result, failed_at>>
                        ELSE /\ ReturnFalse
                             /\ UNCHANGED <<o365_store, next_id, created, idx>>
                     /\ UNCHANGED updated
    /\ UNCHANGED <<delete_removed, ha_server, o365_events, deleted, store0, src0, repeat, passes,
                   edits, codecVars, loopVars, window>>
    /\ UNCHANGED <<interactive, invoked, auxVars>>

\* line 153: the loop over ha_events is over; "if self.delete_removed"
ReconcileEnd ==
    /\ pc = "reconcile"
    /\ idx > Len(ha_events)
    /\ IF DeletionEnabled(delete_removed)
       THEN pc' = "delete" /\ result' = result /\ failed_at' = failed_at
       ELSE pc' = "done" /\ result' = "ok" /\ failed_at' = failed_at
    /\ idx' = 1
    /\ UNCHANGED <<delete_removed, ha_server, o365_store, next_id, ha_events,
                   o365_events, created, updated, deleted, calls, store0, src0, repeat, passes,
                   edits, codecVars, loopVars, window>>
    /\ UNCHANGED <<interactive, invoked, auxVars>>

\* lines 154-158: one iteration of the for loop over o365_events
DeleteRemoved ==
    /\ pc = "delete"
    /\ idx <= Len(o365_events)
    /\ LET o365_event == o365_events[idx]
       IN  IF DeleteWanted(o365_event, ha_events)
           THEN \E ok \in BOOLEAN :
                  /\ calls' = Append(calls,
                         [op |-> "delete", id |-> o365_event.id, uid |-> o365_event.uid,
                          ok |-> ok,
                          found |-> \E n \in 1..Len(o365_store) :
                                        o365_store[n].object_id = o365_event.id])
                  /\ IF ok
                     THEN /\ o365_store' = DeleteEvent(o365_store, o365_event.id)
                          /\ deleted' = deleted + 1
                          /\ idx' = idx + 1
                          /\ UNCHANGED <<pc, result, failed_at>>
                     ELSE /\ ReturnFalse
                          /\ UNCHANGED <<o365_store, deleted, idx>>
           ELSE /\ idx' = idx + 1
                /\ UNCHANGED <<o365_store, deleted, calls, pc, result, failed_at>>
    /\ UNCHANGED <<delete_removed, ha_server, next_id, ha_events, o365_events,
                   created, updated, store0, src0, repeat, passes, edits, codecVars, loopVars, window>>
    /\ UNCHANGED <<interactive, invoked, auxVars>>

\* lines 160-162: "Sync completed successfully!", return True
DeleteEnd ==
    /\ pc = "delete"
    /\ idx > Len(o365_events)
    /\ pc' = "done"
    /\ result' = "ok" /\ failed_at' = failed_at
    /\ UNCHANGED <<delete_removed, ha_server, o365_store, next_id, idx, ha_events,
                   o365_events, created, updated, deleted, calls, store0, src0, repeat, passes,
                   edits, codecVars, loopVars, window>>
    /\ UNCHANGED <<interactive, invoked, auxVars>>

\* ------------------------------------------------------------------------
\* The source between two passes
\* ------------------------------------------------------------------------

RemoveAt(s, n) == SubSeq(s, 1, n - 1) \o SubSeq(s, n + 1, Len(s))

\* an event is added to a source calendar
HaAddEvent ==
    /\ pc = "done"
    /\ passes < MaxPasses
    /\ edits < MaxEdits
    /\ SourceSize(ha_server, Len(HaCalendars)) < MaxSrc
    /\ \E c \in 1..Len(HaCalendars), raw \in RawEvents :
          ha_server' = [ha_server EXCEPT ![c] = Append(@, raw)]
    /\ edits' = edits + 1
    /\ UNCHANGED <<delete_removed, o365_store, next_id, pc, idx, ha_events,
                   o365_events, created, updated, deleted, result, failed_at, calls, store0,
                   src0, repeat, passes, codecVars, loopVars, window>>
    /\ UNCHANGED <<interactive, invoked, auxVars>>

\* an event is removed from a source calendar
HaRemoveEvent ==
    /\ pc = "done"
    /\ passes < MaxPasses
    /\ edits < MaxEdits
    /\ \E c \in 1..Len(HaCalendars) :
          \E n \in 1..Len(ha_server[c]) :
             ha_server' = [ha_server EXCEPT ![c] = RemoveAt(@, n)]
    /\ edits' = edits + 1
    /\ UNCHANGED <<delete_removed, o365_store, next_id, pc, idx, ha_events,
                   o365_events, created, updated, deleted, result, failed_at, calls, store0,
                   src0, repeat, passes, codecVars, loopVars, window>>
    /\ UNCHANGED <<interactive, invoked, auxVars>>

\* an event of a source calendar is edited: same uid, other content
HaEditEvent ==
    /\ pc = "done"
    /\ passes < MaxPasses
    /\ edits < MaxEdits
    /\ \E c \in 1..Len(HaCalendars) :
          \E n \in 1..Len(ha_server[c]) :
             \E raw \in RawEvents :
                /\ raw # ha_server[c][n]
                /\ raw.has_uid = ha_server[c][n].has_uid
                /\ raw.uid = ha_server[c][n].uid
                /\ ha_server' = [ha_server EXCEPT ![c][n] = raw]
    /\ edits' = edits + 1
    /\ UNCHANGED <<delete_removed, o365_store, next_id, pc, idx, ha_events,
                   o365_events, created, updated, deleted, result, failed_at, calls, store0,
                   src0, repeat, passes, codecVars, loopVars, window>>
    /\ UNCHANGED <<interactive, invoked, auxVars>>

Next ==
    \/ StartSync
    \/ TestConnection
    \/ Authenticate
    \/ FetchHaCalendar
    \/ FetchO365
    \/ ReconcileEvent
    \/ ReconcileEnd
    \/ DeleteRemoved
    \/ DeleteEnd
    \/ HaAddEvent
    \/ HaRemoveEvent
    \/ HaEditEvent

Spec == Init /\ [][Next]_vars

\* ------------------------------------------------------------------------
\* One-shot mode: main without --continuous and without --delete
\* ------------------------------------------------------------------------

\* an exit code that ignores the result (a mutant of ExitCode)
ExitCodeAlwaysZero(res) == 0

\* line 364: sys.exit(0 if result else 1)
ExitCode(res) == IF res = "ok" THEN 0 ELSE 1

\* main, lines 351-352 and 362-363: a CalendarSync is made, with or without
\* --interactive, and sync() is about to be called
MainInit ==
    /\ SyncInit
    /\ CodecIdle
    /\ WindowInit
    /\ CompIdle
    /\ loop = "main"
    /\ sync_count = 0
    /\ interactive \in BOOLEAN
    /\ exit_code = "none"

\* lines 363-364: sync() has returned and the process exits
MainExit ==
    /\ loop = "main"
    /\ pc = "done"
    /\ loop' = "exited"
    /\ exit_code' = ExitCode(result)
    /\ UNCHANGED <<syncVars, codecVars, pass_now, sync_count, now, start_date, end_date,
                   compVars>>

MainNext ==
    \/ StartSync
    \/ TestConnection
    \/ Authenticate
    \/ FetchHaCalendar
    \/ FetchO365
    \/ ReconcileEvent
    \/ ReconcileEnd
    \/ DeleteRemoved
    \/ DeleteEnd
    \/ MainExit

MainSpec == MainInit /\ [][MainNext]_vars

\* ------------------------------------------------------------------------
\* Continuous mode: CalendarSync.run_continuous
\* ------------------------------------------------------------------------

\* how many intervals a single pass may take
MaxPassTicks == 2
\* how many source events and destination events continuous mode starts with
MaxContSrc == 1
MaxContDest == 1

\* config["sync"].get("sync_interval", 900)
sync_interval == 900

\* result = self.sync() with the call not waited for (a mutant of SyncReturned)
SyncReturnedAlways(p) == TRUE

\* line 265: result = self.sync() is a blocking call; the loop goes on when
\* sync() has returned
SyncReturned(p) == p = "done"

\* line 274: time.sleep(sync_interval), whatever sync() returned
SleepAfterPass(res, interval) == interval

\* line 279: time.sleep(sync_interval)
SleepAfterError(interval) == interval

\* main, lines 357-360: a CalendarSync is made and run_continuous is entered
ContInit ==
    /\ SyncInit
    /\ SourceSize(ha_server, Len(HaCalendars)) <= MaxContSrc
    /\ Len(o365_store) <= MaxContDest
    /\ CodecIdle
    /\ WindowInit
    /\ loop = "top"
    /\ sync_count = 0
    /\ interactive = FALSE
    /\ exit_code = "none"
    /\ CompIdle

\* lines 257-262: the head of one iteration of "while True"
LoopTop ==
    /\ loop = "top"
    /\ sync_count < MaxPasses
    /\ sync_count' = sync_count + 1
    /\ loop' = "call"
    /\ UNCHANGED <<syncVars, codecVars, pass_now, now, start_date, end_date>>
    /\ UNCHANGED auxVars

\* time passes while a pass is in flight
PassTakesTime ==
    /\ loop = "sync"
    /\ pc \notin {"idle", "done"}
    /\ now - pass_now < MaxPassTicks * sync_interval
    /\ now' = now + sync_interval
    /\ UNCHANGED <<syncVars, codecVars, pass_now, loop, sync_count, start_date, end_date>>
    /\ UNCHANGED auxVars

\* lines 265-274 with the loop left at rest after a pass that returned False
\* (a mutant of LoopSleep)
LoopSleepOnSuccessOnly ==
    /\ loop = "sync"
    /\ SyncReturned(pc)
    /\ result = "ok"
    /\ loop' = "sleep"
    /\ UNCHANGED <<syncVars, codecVars, pass_now, sync_count, now, start_date, end_date>>
    /\ UNCHANGED auxVars

\* lines 265-274: sync() has returned, its result is logged, time.sleep begins
LoopSleep ==
    /\ loop = "sync"
    /\ SyncReturned(pc)
    /\ loop' = "sleep"
    /\ UNCHANGED <<syncVars, codecVars, pass_now, sync_count, now, start_date, end_date>>
    /\ UNCHANGED auxVars

\* lines 276-279: an exception leaves the try body, before sync() has entered
\* its own try or after it has returned; it is logged and time.sleep begins
LoopExcept ==
    /\ \/ loop = "call"
       \/ loop = "sync" /\ pc = "done"
    /\ loop' = "except"
    /\ UNCHANGED <<syncVars, codecVars, pass_now, sync_count, now, start_date, end_date>>
    /\ UNCHANGED auxVars

\* time.sleep of line 274 or of line 279 returns
LoopWake ==
    /\ loop \in {"sleep", "except"}
    /\ now' = now + (IF loop = "sleep" THEN SleepAfterPass(result, sync_interval)
                                       ELSE SleepAfterError(sync_interval))
    /\ loop' = "top"
    /\ UNCHANGED <<syncVars, codecVars, pass_now, sync_count, start_date, end_date>>
    /\ UNCHANGED auxVars

\* lines 249-254: SIGINT or SIGTERM arrives; signal_handler runs in the main
\* thread at once and sys.exit(0) raises SystemExit, which neither "except
\* Exception" of sync() nor that of run_continuous catches
Signal ==
    /\ loop \in {"top", "call", "sync", "sleep", "except"}
    /\ loop' = "exited"
    /\ pc' = IF pc \in {"idle", "done"} THEN pc ELSE "interrupted"
    /\ UNCHANGED <<delete_removed, ha_server, o365_store, next_id, idx, ha_events,
                   o365_events, created, updated, deleted, result, calls, store0, src0,
                   repeat, passes, edits, failed_at, window, interactive, invoked, codecVars,
                   pass_now, sync_count, now, start_date, end_date>>
    /\ exit_code' = 0
    /\ UNCHANGED compVars

\* the steps the program takes when nothing raises out of the try body and
\* no signal arrives
ContRun ==
    \/ LoopTop
    \/ StartSync
    \/ TestConnection
    \/ Authenticate
    \/ FetchHaCalendar
    \/ FetchO365
    \/ ReconcileEvent
    \/ ReconcileEnd
    \/ DeleteRemoved
    \/ DeleteEnd
    \/ PassTakesTime
    \/ LoopSleep
    \/ LoopWake

ContNext == ContRun \/ LoopExcept \/ Signal

ContSpec == ContInit /\ [][ContNext]_vars

\* the process keeps running: calls return or raise, sleeps end
ContLiveSpec == ContSpec /\ WF_vars(ContRun)

\* ------------------------------------------------------------------------
\* The identity codec on its own: _set_event_uid and _get_event_uid applied
\* to one event of any description
\* ------------------------------------------------------------------------

\* most _set_event_uid calls on the one event
MaxSets == 2

\* tokens a uid is drawn from
UidTokens == {"a", "[", "HA_UID:", "]"}

\* pieces a description is drawn from: single tokens, the marker of the
\* event's own uid and the marker of another uid
BodyPieces(uid) ==
    { <<"a">>, <<"[">>, <<"HA_UID:">>, <<"]">>, <<"\n">>, UidMarker(uid), UidMarker(Uid_b) }

RECURSIVE Flatten(_)
Flatten(pieces) == IF pieces = << >> THEN << >> ELSE Head(pieces) \o Flatten(Tail(pieces))

\* the sync machine at rest
SyncIdle ==
    /\ delete_removed = TRUE
    /\ ha_server = [n \in 1..Len(HaCalendars) |-> << >>]
    /\ o365_store = << >>
    /\ next_id = 1
    /\ pc = "idle"
    /\ idx = 1
    /\ ha_events = << >>
    /\ o365_events = << >>
    /\ created = 0
    /\ updated = 0
    /\ deleted = 0
    /\ result = "none"
    /\ calls = << >>
    /\ store0 = << >>
    /\ src0 = ha_server
    /\ repeat = FALSE
    /\ passes = 0
    /\ edits = 0
    /\ failed_at = "none"
    /\ window = << >>
    /\ invoked = {}

\* calendar.new_event() populated with any description; any uid
CodecInit ==
    /\ ev_uid \in SeqUpTo(UidTokens, MaxUidLen)
    /\ \E pieces \in SeqUpTo(BodyPieces(ev_uid), MaxBodyLen) : ev_body = Flatten(pieces)
    /\ ev_id = ObjectId(1)
    /\ ev_body0 = ev_body
    /\ ev_prev = ev_body
    /\ ev_sets = 0
    /\ ev_decoded = << >>
    /\ SyncIdle
    /\ WindowInit
    /\ NoLoop
    /\ CompIdle

\* self._set_event_uid(event, uid)
CodecSetUid ==
    /\ ev_sets < MaxSets
    /\ ev_prev' = ev_body
    /\ ev_body' = SetEventUid(ev_body, ev_uid)
    /\ ev_sets' = ev_sets + 1
    /\ ev_decoded' = << >>
    /\ UNCHANGED <<ev_id, ev_uid, ev_body0, syncVars, loopVars>>
    /\ UNCHANGED auxVars

\* self._get_event_uid(event)
CodecGetUid ==
    /\ ev_decoded = << >>
    /\ ev_decoded' = <<GetEventUid(ev_body, ev_id)>>
    /\ UNCHANGED <<ev_body, ev_id, ev_uid, ev_body0, ev_prev, ev_sets, syncVars, loopVars>>
    /\ UNCHANGED auxVars

CodecNext == CodecSetUid \/ CodecGetUid

CodecSpec == CodecInit /\ [][CodecNext]_vars

\* ------------------------------------------------------------------------
\* Properties of the identity codec (checked under CodecSpec)
\* ------------------------------------------------------------------------

Tokens(s) == {s[n] : n \in 1..Len(s)}

\* how often p occurs in s
Occurrences(s, p) ==
    Cardinality({i \in 1..Len(s) : i + Len(p) - 1 <= Len(s) /\ SubSeq(s, i, i + Len(p) - 1) = p})

\* s holds "[HA_UID:", one or more characters other than "]", then "]"
HoldsWellFormedMarker(s) ==
    \E i \in 1..Len(s) : \E j \in 1..Len(s) :
        /\ i + 2 < j
        /\ s[i] = "["
        /\ s[i + 1] = "HA_UID:"
        /\ s[j] = "]"
        /\ \A h \in (i + 2)..(j - 1) : s[h] # "]"

\* the uid is not empty and holds none of the marker's delimiters
PlainUid(uid) == uid # EmptyStr /\ Tokens(uid) \cap {"[", "HA_UID:", "]"} = {}

\* C5: for every non-empty uid without a marker delimiter and every description
\* the event carried before encoding, _get_event_uid after one
\* _set_event_uid(event, uid) returns uid.
C5_RoundTrip ==
    (ev_sets = 1 /\ ev_decoded # << >> /\ PlainUid(ev_uid)) => ev_decoded = <<ev_uid>>

\* C6 as stated: after _set_event_uid has run twice with the same uid the
\* description is the one the first run left, and the marker of that uid occurs
\* in it exactly once.
C6_IdempotentExactlyOnce ==
    ev_sets = 2 =>
        /\ ev_body = ev_prev
        /\ Occurrences(ev_body, UidMarker(ev_uid)) = 1

\* C6 amended: the second _set_event_uid with the same uid changes nothing, the
\* description holds the marker after any run, and the marker occurs exactly
\* once when the uid is plain and the description first held it at most once.
C6_Idempotent ==
    ev_sets >= 1 =>
        /\ Contains(ev_body, UidMarker(ev_uid))
        /\ ev_sets = 2 => ev_body = ev_prev
        /\ (PlainUid(ev_uid) /\ Occurrences(ev_body0, UidMarker(ev_uid)) <= 1)
              => Occurrences(ev_body, UidMarker(ev_uid)) = 1

\* C6 witness: the first run appended the marker to a description without it,
\* and the second run has been made.
C6_Witness ==
    /\ ev_sets = 2
    /\ ev_body0 # EmptyStr
    /\ ~Contains(ev_body0, UidMarker(ev_uid))
    /\ ev_body = ev_body0 \o <<"\n", "\n">> \o UidMarker(ev_uid)

Events(store) == {store[n] : n \in 1..Len(store)}

StoreIds(store) == {store[n].object_id : n \in 1..Len(store)}

\* positions in calls of the calls of one client operation
CallsOf(op) == {m \in 1..Len(calls) : calls[m].op = op}

\* sync() has returned True
PassReturnedTrue == pc = "done" /\ result = "ok"

\* the destination events whose title starts with a configured prefix
Tagged(store) == {e \in Events(store) : HasSyncPrefix(e.subject, CalendarPrefixes)}

\* the uids decoded from the tagged destination events
MirrorUids(store) == {GetEventUid(e.body, e.object_id) : e \in Tagged(store)}

\* the destination ids of the mirrored-map keys that are no uid of the source set
RemovedIds ==
    {o365_events[n].id : n \in {k \in 1..Len(o365_events) :
                                    o365_events[k].uid \notin DictKeys(ha_events)}}

\* C1: after a pass that returned True with deletion propagation enabled, the
\* uids decoded from the tagged destination events are exactly the uids of the
\* source events fetched in that pass.
C1_DestinationMatchesSource ==
    (PassReturnedTrue /\ delete_removed) => MirrorUids(o365_store) = DictKeys(ha_events)

\* C2: a destination event whose title starts with no configured prefix is in
\* no pass a key of the mirrored map nor the target of an update_event or
\* delete_event call, and it stays in the destination as it was.
C2_UnrelatedUntouched ==
    \A e \in Events(store0) \ Tagged(store0) :
        /\ e \in Events(o365_store)
        /\ \A m \in CallsOf("update") \cup CallsOf("delete") : calls[m].id # e.object_id
        /\ \A n \in 1..Len(o365_events) : o365_events[n].id # e.object_id

\* C2 witness: the second pass has deleted a mirrored event while an untagged
\* event that carries a well-formed marker sat in the destination.
C2_Witness ==
    /\ PassReturnedTrue
    /\ passes = 2
    /\ deleted >= 1
    /\ \E e \in Events(store0) \ Tagged(store0) : HoldsWellFormedMarker(e.body)

\* C3: while the mirrored map is empty a pass issues no update and no delete,
\* and its m-th call is the create of the m-th event of the merged source set
\* S, so no event gets two; the loop has issued one create for every event it
\* has passed, and a pass that returned True has issued exactly one create per
\* event of S (created = |S|), each stored in the destination.
C3_EmptyMirrorCreatesAll ==
    o365_events = << >> =>
        /\ Len(calls) <= Len(ha_events)
        /\ \A m \in 1..Len(calls) :
              calls[m].op = "create" /\ calls[m].uid = ha_events[m].uid
        /\ updated = 0
        /\ deleted = 0
        /\ created = Cardinality({m \in 1..Len(calls) : calls[m].ok})
        /\ (pc = "reconcile" /\ result = "none") => Len(calls) = idx - 1
        /\ PassReturnedTrue =>
              /\ created = Len(ha_events)
              /\ Len(calls) = Len(ha_events)
              /\ Len(o365_store) = Len(store0) + Len(ha_events)

\* C3 witness: a pass over two source events found nothing mirrored in a
\* destination that was not empty, and returned True.
C3_Witness ==
    /\ PassReturnedTrue
    /\ o365_events = << >>
    /\ store0 # << >>
    /\ Len(ha_events) = 2
    /\ created = 2

\* C4: a pass that returns True right after a pass that returned True, over the
\* same source and with deletion enabled, has created nothing and deleted
\* nothing.
C4_SecondPassIdle ==
    (PassReturnedTrue /\ repeat /\ delete_removed) => (created = 0 /\ deleted = 0)

\* C8: with deletion propagation enabled, delete_event is called at most once
\* per destination id and only for ids of mirrored-map keys that are no source
\* uid; a pass that returned True has called it for every such id.
C8_DeletesExactlyRemoved ==
    delete_removed =>
        /\ \A m \in CallsOf("delete") : calls[m].id \in RemovedIds
        /\ \A m1, m2 \in CallsOf("delete") : calls[m1].id = calls[m2].id => m1 = m2
        /\ PassReturnedTrue =>
              /\ {calls[m].id : m \in CallsOf("delete")} = RemovedIds
              /\ deleted = Cardinality(RemovedIds)

\* C8 witness: a pass with deletion enabled returned True after deleting one
\* mirrored event and keeping another whose uid is in the source.
C8_Witness ==
    /\ PassReturnedTrue
    /\ delete_removed
    /\ deleted >= 1
    /\ \E n \in 1..Len(o365_events) : o365_events[n].uid \in DictKeys(ha_events)

\* C9: with deletion propagation disabled no pass calls delete_event, and every
\* event the destination held when the pass started is still there.
C9_NoDeleteWhenDisabled ==
    ~delete_removed =>
        /\ CallsOf("delete") = {}
        /\ deleted = 0
        /\ StoreIds(store0) \subseteq StoreIds(o365_store)

\* C9 witness: a pass with deletion disabled returned True although a mirrored
\* event's uid was no longer in the source.
C9_Witness ==
    /\ ~delete_removed
    /\ PassReturnedTrue
    /\ RemovedIds # {}

\* C10: no pass calls update_event; a source event whose uid is a key of the
\* mirrored map is neither created nor updated, and its destination copy stays
\* as it was when the pass started.
C10_MirroredLeftAsIs ==
    /\ updated = 0
    /\ CallsOf("update") = {}
    /\ \A n \in 1..Len(ha_events) :
          ha_events[n].uid \in DictKeys(o365_events) =>
             /\ \A m \in CallsOf("create") \cup CallsOf("update") :
                   calls[m].uid # ha_events[n].uid
             /\ \E e \in Events(o365_store) \cap Events(store0) :
                   e.object_id = DictGet(o365_events, ha_events[n].uid).id

\* C10 witness: a pass returned True over a source event whose start differs
\* from the start of its mirrored copy.
C10_Witness ==
    /\ PassReturnedTrue
    /\ \E n \in 1..Len(ha_events) :
          /\ ha_events[n].uid \in DictKeys(o365_events)
          /\ ha_events[n].start # DictGet(o365_events, ha_events[n].uid).start

\* ------------------------------------------------------------------------
\* Failures within a pass
\* ------------------------------------------------------------------------

\* source events of this pass that the mirrored map does not hold
Missing == {n \in 1..Len(ha_events) : ha_events[n].uid \notin DictKeys(o365_events)}

\* C11: when authenticate() fails the pass has returned False, no create, update
\* or delete call has been issued in it and the destination is as it was when
\* the pass started.
C11_AuthFailureAborts ==
    failed_at = "authenticate" =>
        /\ pc = "done"
        /\ result = "failed"
        /\ calls = << >>
        /\ o365_store = store0

\* C11 witness: authentication failed in a pass whose source holds events and
\* whose destination holds mirrored events.
C11_Witness ==
    /\ failed_at = "authenticate"
    /\ \E c \in 1..Len(HaCalendars) : ha_server[c] # << >>
    /\ Tagged(o365_store) # {}

\* C12: when the connectivity test, the fetch of a source calendar or the
\* destination fetch fails, the pass has returned False, no create, update or
\* delete call has been issued in it and the destination is as it was when the
\* pass started.
C12_FetchFailureAborts ==
    failed_at \in {"test_connection", "fetch_ha", "fetch_o365"} =>
        /\ pc = "done"
        /\ result = "failed"
        /\ calls = << >>
        /\ o365_store = store0

\* C12 witness: the fetch of the second source calendar failed after the first
\* calendar had delivered events, with mirrored events in the destination.
C12_Witness ==
    /\ failed_at = "fetch_ha"
    /\ idx = 2
    /\ ha_events # << >>
    /\ Tagged(o365_store) # {}

\* C13: a pass that got past both fetches has, when it ends, attempted a create
\* for every source event missing from the mirrored map and, with deletion
\* enabled, a delete for every mirrored event whose uid left the source,
\* whether or not one of its calls failed.
C13_ApplyBestEffort ==
    (pc = "done" /\ failed_at \in {"none", "reconcile", "delete"}) =>
        /\ \A n \in Missing : \E m \in CallsOf("create") : calls[m].uid = ha_events[n].uid
        /\ delete_removed =>
              \A id \in RemovedIds : \E m \in CallsOf("delete") : calls[m].id = id

\* ------------------------------------------------------------------------
\* Properties of continuous mode
\* ------------------------------------------------------------------------

\* C14: in continuous mode every iteration of the loop, whether its pass
\* returned True, returned False or raised, is followed by the next iteration
\* unless a termination signal arrives, and every wait between two iterations
\* lasts exactly sync_interval.
C14_FailedPassKeepsLooping ==
    /\ \A n \in 1..(MaxPasses - 1) :
          (sync_count = n) ~> (sync_count = n + 1 \/ loop = "exited")
    /\ [][(loop \in {"sleep", "except"} /\ loop' = "top") => now' = now + sync_interval]_vars

\* C14 witness: a second pass is in flight after a first pass that returned False.
C14_Witness ==
    /\ loop = "sync"
    /\ sync_count = 2
    /\ passes = 2
    /\ repeat = FALSE
    /\ pass_now = sync_interval
    /\ pc = "authenticate"

\* C15: in continuous mode a pass is entered only while no pass is in flight,
\* that is when sync() has never been entered or has returned, also when the
\* pass before lasted longer than sync_interval.
C15_OnePassInFlight ==
    [][passes' = passes + 1 => pc \in {"idle", "done"}]_vars

\* C15 witness: the second pass is in flight after a first pass that lasted
\* longer than sync_interval.
C15_Witness ==
    /\ loop = "sync"
    /\ passes = 2
    /\ pc \notin {"idle", "done"}
    /\ pass_now > 2 * sync_interval

\* C16: the process exits on a termination signal only at an idle point: the
\* pass that was in flight when the signal arrived has run to completion.
C16_SignalWaitsForPass ==
    loop = "exited" => pc \in {"idle", "done"}

\* C17: the window handed to get_events and get_synced_events in a pass is
\* [now - days_past, now + days_future) for the time at which that pass began.
C17_WindowOfThisPass ==
    window # << >> => window = <<WindowStart(pass_now), WindowEnd(pass_now)>>

\* ------------------------------------------------------------------------
\* Created events, merged source set, mirrored map
\* ------------------------------------------------------------------------

\* the places <<calendar, position>> at which the source held uid u when the
\* pass began
PlacesOf(u) ==
    {pl \in (1..Len(HaCalendars)) \X (1..MaxSrc + MaxEdits) :
        /\ pl[2] <= Len(src0[pl[1]])
        /\ NormalizeHaEvent(src0[pl[1]][pl[2]]).uid = u}

\* the place fetched last among those holding uid u
LastPlaceOf(u) ==
    CHOOSE pl \in PlacesOf(u) :
        \A q \in PlacesOf(u) : q[1] < pl[1] \/ (q[1] = pl[1] /\ q[2] <= pl[2])

\* the uids the source held when the pass began
SourceUids == {u \in {NormalizeHaEvent(raw).uid : raw \in RawEvents} : PlacesOf(u) # {}}

\* the pass has fetched every source calendar
SourceFetched ==
    /\ pc \in {"fetch_o365", "reconcile", "delete", "done"}
    /\ failed_at \notin {"test_connection", "authenticate", "fetch_ha"}

\* the pass has fetched the mirrored map
MirrorFetched ==
    /\ pc \in {"reconcile", "delete", "done"}
    /\ failed_at \notin {"test_connection", "authenticate", "fetch_ha", "fetch_o365"}

\* positions of the prefixed events of store that decode to uid u
MirrorsOf(store, u) ==
    {n \in 1..Len(store) :
        /\ HasSyncPrefix(store[n].subject, CalendarPrefixes)
        /\ GetEventUid(store[n].body, store[n].object_id) = u}

\* C18: every event a pass has created is in the destination with the title
\* "[Tag] " followed by the raw title of a source event of that uid, the tag
\* being that of the source event's calendar, and with a description that
\* holds the marker of that uid.
C18_CreatedTitleAndMarker ==
    \A m \in CallsOf("create") :
        calls[m].ok =>
            \E e \in Events(o365_store) :
                /\ e.object_id = calls[m].id
                /\ Contains(e.body, UidMarker(calls[m].uid))
                /\ \E pl \in PlacesOf(calls[m].uid) :
                      e.subject = CalendarPrefix(HaCalendars[pl[1]]) \o <<" ">>
                                      \o src0[pl[1]][pl[2]].summary

\* C18 witness: a pass returned True after creating the event of uid b, whose
\* source description is not empty.
C18_Witness ==
    /\ PassReturnedTrue
    /\ \E m \in CallsOf("create") :
          /\ calls[m].ok
          /\ calls[m].uid = Uid_b
          /\ \E e \in Events(o365_store) :
                e.object_id = calls[m].id /\ Len(e.body) > Len(UidMarker(Uid_b))

\* C19: once the source calendars are fetched, the merged source set holds
\* exactly one event for every uid the source holds, namely the one fetched
\* last (later calendar, later position), with that calendar's prefix; and a
\* pass issues at most one create per uid.
C19_LastCalendarWins ==
    /\ SourceFetched =>
          /\ DictKeys(ha_events) = SourceUids
          /\ \A n1, n2 \in 1..Len(ha_events) :
                ha_events[n1].uid = ha_events[n2].uid => n1 = n2
          /\ \A n \in 1..Len(ha_events) :
                LET pl   == LastPlaceOf(ha_events[n].uid)
                    last == NormalizeHaEvent(src0[pl[1]][pl[2]])
                    pre  == CalendarPrefix(HaCalendars[pl[1]])
                IN  /\ ha_events[n].calendar_prefix = pre
                    /\ ha_events[n].start = last.start
                    /\ ha_events[n].description = last.description
                    /\ ha_events[n].all_day = last.all_day
                    /\ ha_events[n].summary \in {last.summary, pre \o <<" ">> \o last.summary}
    /\ \A m1, m2 \in CallsOf("create") : calls[m1].uid = calls[m2].uid => m1 = m2

\* C19 witness: a pass returned True with one create for uid a, which the
\* first calendar holds with start 1 and the second with start 2.
C19_Witness ==
    /\ PassReturnedTrue
    /\ created = 1
    /\ Len(src0[1]) = 1 /\ src0[1][1].uid = Uid_a /\ src0[1][1].start.at = 1
    /\ Len(src0[2]) = 1 /\ src0[2][1].uid = Uid_a /\ src0[2][1].start.at = 2
    /\ \E e \in Events(o365_store) : e.start = 2 /\ StartsWith(e.subject, CalendarPrefix(HaCalendars[2]))

\* C20: once fetched, the mirrored map holds exactly one entry for every uid
\* that a prefixed destination event decodes to, whose id is that of the last
\* such event in the order of the calendar view, however many events decode
\* to that uid.
C20_DuplicateLaterWins ==
    MirrorFetched =>
        /\ \A n \in 1..Len(store0) :
              HasSyncPrefix(store0[n].subject, CalendarPrefixes) =>
                  LET u   == GetEventUid(store0[n].body, store0[n].object_id)
                      top == CHOOSE k \in MirrorsOf(store0, u) :
                                 \A j \in MirrorsOf(store0, u) : j <= k
                  IN  /\ Cardinality({k \in 1..Len(o365_events) : o365_events[k].uid = u}) = 1
                      /\ DictGet(o365_events, u).id = store0[top].object_id
        /\ \A k \in 1..Len(o365_events) : MirrorsOf(store0, o365_events[k].uid) # {}

\* C20 witness: a pass returned True over a destination in which two prefixed
\* events decode to the same uid.
C20_Witness ==
    /\ PassReturnedTrue
    /\ \E u \in {Uid_a, Uid_b} : Cardinality(MirrorsOf(store0, u)) = 2

\* ------------------------------------------------------------------------
\* Properties of a one-shot invocation
\* ------------------------------------------------------------------------

\* C21: a one-shot invocation exits with code 0 when no step of the pass (or of
\* the interactive authentication) failed and sync returned True, and with
\* code 1 when any step failed.
C21_ExitCodeFollowsResult ==
    loop = "exited" =>
        /\ exit_code \in {0, 1}
        /\ exit_code = 0 <=> result = "ok"
        /\ exit_code = 0 <=> failed_at = "none"

\* C21 witness: the process has exited with code 1 after a failed authentication.
C21_Witness ==
    /\ loop = "exited"
    /\ exit_code = 1
    /\ failed_at = "authenticate"

\* C22: a one-shot invocation whose connectivity test and authentication
\* succeeded exits with code 0 also when a create, update or delete call failed.
C22_ItemFailureExitsZero ==
    (loop = "exited" /\ failed_at \in {"reconcile", "delete"}) => exit_code = 0

\* C26: in interactive mode sync() calls authenticate and nothing else: no
\* connectivity test, no fetch, no create, update or delete; the destination
\* stays as it was and sync returns True exactly when authenticate did.
C26_InteractiveAuthOnly ==
    interactive =>
        /\ invoked \subseteq {"authenticate"}
        /\ window = << >>
        /\ calls = << >>
        /\ passes > 0 => o365_store = store0
        /\ pc = "done" =>
              /\ invoked = {"authenticate"}
              /\ result = "ok" <=> failed_at = "none"
              /\ result = "failed" <=> failed_at = "authenticate"

\* C26 witness: an interactive invocation has exited with code 0 although the
\* source holds an event that is not mirrored.
C26_Witness ==
    /\ interactive
    /\ loop = "exited"
    /\ exit_code = 0
    /\ \E c \in 1..Len(HaCalendars) : ha_server[c] # << >>
    /\ Tagged(o365_store) = {}

\* C23: every source event in the reconciliation loop has a non-empty uid, no
\* two of them share a uid, and no event is created under an empty uid.
C23_SourceUidsNonEmpty ==
    /\ pc = "reconcile" =>
          /\ \A n \in 1..Len(ha_events) : ha_events[n].uid # EmptyStr
          /\ \A n1, n2 \in 1..Len(ha_events) :
                ha_events[n1].uid = ha_events[n2].uid => n1 = n2
    /\ \A m \in CallsOf("create") : calls[m].uid # EmptyStr

\* ------------------------------------------------------------------------
\* Office365Client on its own (o365_client.py): any caller, any order of calls
\* ------------------------------------------------------------------------

\* operations recorded in cl_log
MaxClientOps == 3

\* the variables of the sync machine other than the destination calendar
passVars == <<delete_removed, ha_server, pc, idx, ha_events, o365_events, created,
              updated, deleted, result, calls, store0, src0, repeat, passes, edits,
              failed_at, window, interactive, invoked>>

\* the guard of the four operations with the test left out (a mutant of CalendarSet)
CalendarSetAlways(calendar) == TRUE

\* "if not self.calendar: raise RuntimeError(...)" passes
CalendarSet(calendar) == calendar

\* one entry of cl_log: the operation, self.calendar when it was called, how it
\* ended, and whether it sent a request to the remote calendar
LogEntry(op, outcome, remote) ==
    [op |-> op, calendar |-> cl_calendar, outcome |-> outcome, remote |-> remote]

\* event data a caller may hand to create_event / update_event
EventData == {NormalizeHaEvent(raw) : raw \in RawEvents}

\* a destination calendar holding nothing, or one mirror created for uid a or b
ClientStores ==
    {<< >>} \cup
    {<<NewEvent(ObjectId(1), data, uid)>> : data \in EventData, uid \in {Uid_a, Uid_b}}

\* Office365Client.__init__, with or without a cached token
ClientInit ==
    /\ delete_removed = TRUE
    /\ ha_server = [n \in 1..Len(HaCalendars) |-> << >>]
    /\ o365_store \in ClientStores
    /\ next_id = Len(o365_store) + 1
    /\ pc = "idle" /\ idx = 1 /\ ha_events = << >> /\ o365_events = << >>
    /\ created = 0 /\ updated = 0 /\ deleted = 0 /\ result = "none"
    /\ calls = << >> /\ store0 = o365_store /\ src0 = ha_server
    /\ repeat = FALSE /\ passes = 0 /\ edits = 0 /\ failed_at = "none"
    /\ window = << >> /\ invoked = {}
    /\ CodecIdle /\ WindowInit /\ NoLoop /\ NormIdle /\ StoreIdle /\ PromptIdle
    /\ cl_calendar = FALSE
    /\ cl_token \in BOOLEAN
    /\ cl_lookup = FALSE
    /\ cl_log = << >>

\* what every client action leaves alone
ClientFrame ==
    UNCHANGED <<passVars, codecVars, loopVars, exit_code, normVars, storeVars, promptVars>>

\* authenticate(interactive) returns False before the calendar lookup: no token
\* and not interactive (lines 72-77), or account.authenticate fails (93-95)
ClAuthenticateRefused ==
    /\ Len(cl_log) < MaxClientOps
    /\ ~cl_token
    /\ cl_log' = Append(cl_log, LogEntry("authenticate", "False", FALSE))
    /\ UNCHANGED <<cl_calendar, cl_token, cl_lookup, o365_store, next_id>>
    /\ ClientFrame

\* authenticate raises before self.calendar is assigned; "except Exception"
\* returns False (lines 119-121)
ClAuthenticateRaises ==
    /\ Len(cl_log) < MaxClientOps
    /\ cl_log' = Append(cl_log, LogEntry("authenticate", "False", TRUE))
    /\ UNCHANGED <<cl_calendar, cl_token, cl_lookup, o365_store, next_id>>
    /\ ClientFrame

\* authenticate reaches the calendar lookup (lines 104-117): with a token, or
\* after an interactive account.authenticate that succeeded
ClAuthenticateLookup ==
    /\ Len(cl_log) < MaxClientOps
    /\ \E found \in BOOLEAN :
        /\ cl_calendar' = found
        /\ cl_log' = Append(cl_log,
               LogEntry("authenticate", IF found THEN "True" ELSE "False", TRUE))
    /\ cl_token' = TRUE
    /\ cl_lookup' = TRUE
    /\ UNCHANGED <<o365_store, next_id>>
    /\ ClientFrame

\* the token expires or is removed
ClTokenExpires ==
    /\ cl_token
    /\ cl_token' = FALSE
    /\ UNCHANGED <<cl_calendar, cl_lookup, cl_log, o365_store, next_id>>
    /\ ClientFrame

\* get_synced_events(start_date, end_date, prefixes)
ClGetSyncedEvents ==
    /\ Len(cl_log) < MaxClientOps
    /\ IF ~CalendarSet(cl_calendar)
       THEN cl_log' = Append(cl_log, LogEntry("get_synced_events", "RuntimeError", FALSE))
       ELSE \E outcome \in {"ok", "raised"} :
                cl_log' = Append(cl_log, LogEntry("get_synced_events", outcome, TRUE))
    /\ UNCHANGED <<cl_calendar, cl_token, cl_lookup, o365_store, next_id>>
    /\ ClientFrame

\* create_event(event_data, uid)
ClCreateEvent ==
    /\ Len(cl_log) < MaxClientOps
    /\ Len(o365_store) < MaxDest
    /\ \E data \in EventData : \E uid \in {Uid_a, Uid_b} :
        IF ~CalendarSet(cl_calendar)
        THEN /\ cl_log' = Append(cl_log, LogEntry("create_event", "RuntimeError", FALSE))
             /\ UNCHANGED <<o365_store, next_id>>
        ELSE \/ /\ cl_log' = Append(cl_log, LogEntry("create_event", "ok", TRUE))
                /\ o365_store' = CreateEvent(o365_store, ObjectId(next_id), data, uid)
                /\ next_id' = next_id + 1
             \/ /\ cl_log' = Append(cl_log, LogEntry("create_event", "raised", TRUE))
                /\ UNCHANGED <<o365_store, next_id>>
    /\ UNCHANGED <<cl_calendar, cl_token, cl_lookup>>
    /\ ClientFrame

\* event ids a caller may name: those of the calendar and one it does not hold
EventIds == StoreIds(o365_store) \cup {ObjectId(0)}

\* update_event(event_id, event_data)
ClUpdateEvent ==
    /\ Len(cl_log) < MaxClientOps
    /\ \E event_id \in EventIds : \E data \in EventData :
        IF ~CalendarSet(cl_calendar)
        THEN /\ cl_log' = Append(cl_log, LogEntry("update_event", "RuntimeError", FALSE))
             /\ UNCHANGED o365_store
        ELSE \/ /\ event_id \in StoreIds(o365_store)
                /\ cl_log' = Append(cl_log, LogEntry("update_event", "ok", TRUE))
                /\ o365_store' = UpdateEvent(o365_store, event_id, data)
             \/ /\ event_id \notin StoreIds(o365_store)
                /\ cl_log' = Append(cl_log, LogEntry("update_event", "None", TRUE))
                /\ UNCHANGED o365_store
             \/ /\ cl_log' = Append(cl_log, LogEntry("update_event", "raised", TRUE))
                /\ UNCHANGED o365_store
    /\ UNCHANGED <<cl_calendar, cl_token, cl_lookup, next_id>>
    /\ ClientFrame

\* delete_event(event_id)
ClDeleteEvent ==
    /\ Len(cl_log) < MaxClientOps
    /\ \E event_id \in EventIds :
        IF ~CalendarSet(cl_calendar)
        THEN /\ cl_log' = Append(cl_log, LogEntry("delete_event", "RuntimeError", FALSE))
             /\ UNCHANGED o365_store
        ELSE \/ /\ event_id \in StoreIds(o365_store)
                /\ cl_log' = Append(cl_log, LogEntry("delete_event", "True", TRUE))
                /\ o365_store' = DeleteEvent(o365_store, event_id)
             \/ /\ event_id \notin StoreIds(o365_store)
                /\ cl_log' = Append(cl_log, LogEntry("delete_event", "False", TRUE))
                /\ UNCHANGED o365_store
             \/ /\ cl_log' = Append(cl_log, LogEntry("delete_event", "raised", TRUE))
                /\ UNCHANGED o365_store
    /\ UNCHANGED <<cl_calendar, cl_token, cl_lookup, next_id>>
    /\ ClientFrame

ClientNext ==
    \/ ClAuthenticateRefused
    \/ ClAuthenticateRaises
    \/ ClAuthenticateLookup
    \/ ClTokenExpires
    \/ ClGetSyncedEvents
    \/ ClCreateEvent
    \/ ClUpdateEvent
    \/ ClDeleteEvent

ClientSpec == ClientInit /\ [][ClientNext]_vars

\* ------------------------------------------------------------------------
\* Properties of Office365Client (checked under ClientSpec)
\* ------------------------------------------------------------------------

GuardedOps == {"get_synced_events", "create_event", "update_event", "delete_event"}

\* C28: an operation called while the calendar is not set ends with
\* RuntimeError and sends nothing to the remote calendar; and the calendar is
\* set only if some authenticate call has reached the calendar lookup.
C28_AuthenticateBeforeUse ==
    /\ \A n \in 1..Len(cl_log) :
           (cl_log[n].op \in GuardedOps /\ ~cl_log[n].calendar) =>
               (cl_log[n].outcome = "RuntimeError" /\ ~cl_log[n].remote)
    /\ (\A n \in 1..Len(cl_log) : ~cl_log[n].calendar) => o365_store = store0
    /\ cl_calendar => cl_lookup

\* an operation was refused before authenticate, and a later one went through
C28_Witness ==
    /\ Len(cl_log) = 3
    /\ cl_log[1].op = "create_event" /\ cl_log[1].outcome = "RuntimeError"
    /\ cl_log[2].op = "authenticate" /\ cl_log[2].outcome = "True"
    /\ cl_log[3].op = "create_event" /\ cl_log[3].outcome = "ok"

\* C30: a destination event that carried a marker for uid u still decodes to
\* u after update_event has been applied to it.
C30_UpdateKeepsUid ==
    \A n \in 1..Len(o365_store) : \A m \in 1..Len(store0) :
        (/\ o365_store[n].object_id = store0[m].object_id
         /\ HoldsWellFormedMarker(store0[m].body)) =>
            GetEventUid(o365_store[n].body, o365_store[n].object_id)
                = GetEventUid(store0[m].body, store0[m].object_id)

\* ------------------------------------------------------------------------
\* CalendarSync.delete_all_synced_events (sync.py), the --delete-all invocation
\* ------------------------------------------------------------------------

\* what the steps of delete_all_synced_events leave alone
DeleteAllFrame ==
    UNCHANGED <<delete_removed, ha_server, next_id, ha_events, created, updated,
                store0, src0, repeat, passes, edits, interactive, codecVars,
                loopVars, exit_code, normVars, clientVars, storeVars>>

\* CalendarSync.__init__ and the call of delete_all_synced_events
DeleteAllInit ==
    /\ delete_removed \in BOOLEAN
    /\ ha_server = [n \in 1..Len(HaCalendars) |-> << >>]
    /\ \E seeds \in SeqUpTo(DestSeeds, MaxDest) :
          /\ o365_store = StoreOf(seeds)
          /\ next_id = Len(seeds) + 1
    /\ pc = "da_authenticate"
    /\ idx = 1 /\ ha_events = << >> /\ o365_events = << >>
    /\ created = 0 /\ updated = 0 /\ deleted = 0 /\ result = "none"
    /\ calls = << >> /\ store0 = o365_store /\ src0 = ha_server
    /\ repeat = FALSE /\ passes = 0 /\ edits = 0 /\ failed_at = "none"
    /\ window = << >> /\ invoked = {}
    /\ interactive \in BOOLEAN
    /\ CodecIdle /\ WindowInit
    /\ loop = "main" /\ sync_count = 0 /\ exit_code = "none"
    /\ CompIdle

\* lines 183-185: authenticate; "Aborting delete", return False
DaAuthenticate ==
    /\ pc = "da_authenticate"
    /\ invoked' = invoked \cup {"authenticate"}
    /\ \E ok \in BOOLEAN :
          IF ok
          THEN pc' = "da_fetch" /\ result' = result /\ failed_at' = failed_at
          ELSE pc' = "done" /\ result' = "failed" /\ failed_at' = "authenticate"
    /\ UNCHANGED <<o365_store, o365_events, idx, deleted, calls, window, confirm>>
    /\ DeleteAllFrame

\* lines 198-206: get_synced_events for the configured prefixes; nothing found
\* returns True; an exception reaches lines 232-234
DaFetch ==
    /\ pc = "da_fetch"
    /\ invoked' = invoked \cup {"get_synced_events"}
    /\ window' = <<start_date, end_date>>
    /\ \E ok \in BOOLEAN :
          IF ok
          THEN LET found == GetSyncedEvents(<< >>, o365_store, CalendarPrefixes)
               IN  /\ o365_events' = found
                   /\ failed_at' = failed_at
                   /\ IF found = << >>
                      THEN pc' = "done" /\ result' = "ok"
                      ELSE /\ pc' = IF interactive THEN "da_confirm" ELSE "da_delete"
                           /\ result' = result
          ELSE /\ pc' = "done" /\ result' = "failed" /\ failed_at' = "get_synced_events"
               /\ UNCHANGED o365_events
    /\ idx' = 1
    /\ UNCHANGED <<o365_store, deleted, calls, confirm>>
    /\ DeleteAllFrame

\* lines 211-215: the prompt of the interactive mode
DaConfirm ==
    /\ pc = "da_confirm"
    /\ \E answer \in {"yes", "no"} :
          /\ confirm' = answer
          /\ IF answer = "yes"
             THEN pc' = "da_delete" /\ result' = result
             ELSE pc' = "done" /\ result' = "ok"
    /\ UNCHANGED <<o365_store, o365_events, idx, deleted, calls, window, invoked, failed_at>>
    /\ DeleteAllFrame

\* the loop of lines 219-225 with a failed delete_event ending the operation
\* (a mutant of DaDeleteEvent)
DaDeleteEventAborts ==
    /\ pc = "da_delete"
    /\ idx <= Len(o365_events)
    /\ invoked' = invoked \cup {"delete_event"}
    /\ \E ok \in BOOLEAN :
          /\ calls' = Append(calls, [op |-> "delete", id |-> o365_events[idx].id,
                                     uid |-> o365_events[idx].uid, ok |-> ok])
          /\ IF ok
             THEN /\ o365_store' = DeleteEvent(o365_store, o365_events[idx].id)
                  /\ deleted' = deleted + 1
                  /\ idx' = idx + 1
                  /\ UNCHANGED <<pc, result, failed_at>>
             ELSE /\ pc' = "done" /\ result' = "failed" /\ failed_at' = "delete_event"
                  /\ UNCHANGED <<o365_store, deleted, idx>>
    /\ UNCHANGED <<o365_events, window, confirm>>
    /\ DeleteAllFrame

\* lines 219-225: one iteration of the loop; the exception of a delete_event is
\* logged and the loop goes on
DaDeleteEvent ==
    /\ pc = "da_delete"
    /\ idx <= Len(o365_events)
    /\ invoked' = invoked \cup {"delete_event"}
    /\ \E ok \in BOOLEAN :
          /\ calls' = Append(calls, [op |-> "delete", id |-> o365_events[idx].id,
                                     uid |-> o365_events[idx].uid, ok |-> ok])
          /\ IF ok
             THEN /\ o365_store' = DeleteEvent(o365_store, o365_events[idx].id)
                  /\ deleted' = deleted + 1
             ELSE UNCHANGED <<o365_store, deleted>>
    /\ idx' = idx + 1
    /\ UNCHANGED <<pc, result, failed_at, o365_events, window, confirm>>
    /\ DeleteAllFrame

\* lines 227-230: "DELETION COMPLETE", return True
DaEnd ==
    /\ pc = "da_delete"
    /\ idx > Len(o365_events)
    /\ pc' = "done"
    /\ result' = "ok"
    /\ UNCHANGED <<o365_store, o365_events, idx, deleted, calls, window, invoked,
                   failed_at, confirm>>
    /\ DeleteAllFrame

DeleteAllNext == DaAuthenticate \/ DaFetch \/ DaConfirm \/ DaDeleteEvent \/ DaEnd

DeleteAllSpec == DeleteAllInit /\ [][DeleteAllNext]_vars

\* ------------------------------------------------------------------------
\* Properties of delete_all_synced_events (checked under DeleteAllSpec)
\* ------------------------------------------------------------------------

\* the ids of the events get_synced_events gives for the calendar as it was
SyncedIds(store) ==
    {e.object_id : e \in {x \in Events(store) : HasSyncPrefix(x.subject, CalendarPrefixes)}}

\* C27: delete_event is called only for events get_synced_events returned for
\* the configured prefixes; once the loop has started, every returned event
\* gets its delete_event call whatever the earlier calls did, and the
\* operation returns True; after a failed authenticate or a declined prompt
\* no delete_event is called.
C27_DeleteAllBestEffort ==
    /\ \A m \in 1..Len(calls) :
           /\ calls[m].op = "delete"
           /\ calls[m].id \in SyncedIds(store0)
           /\ calls[m].id = o365_events[m].id
    /\ Events(o365_store) \cap {e \in Events(store0) : e.object_id \notin SyncedIds(store0)}
           = {e \in Events(store0) : e.object_id \notin SyncedIds(store0)}
    /\ (pc = "done" /\ calls # << >>) =>
           (result = "ok" /\ Len(calls) = Len(o365_events))
    /\ (failed_at = "authenticate" \/ confirm = "no") =>
           (calls = << >> /\ o365_store = store0 /\ "delete_event" \notin invoked)
    /\ (pc = "done" /\ confirm = "no") => result = "ok"
    /\ (pc = "done" /\ failed_at = "authenticate") => result = "failed"

\* the first delete_event failed, the second went through, True was returned
C27_Witness ==
    /\ pc = "done"
    /\ result = "ok"
    /\ Len(calls) = 2
    /\ ~calls[1].ok
    /\ calls[2].ok
    /\ Len(o365_store) = 1

\* ------------------------------------------------------------------------
\* Calendar stores (store_integration.py)
\* ------------------------------------------------------------------------

\* calls made on the scoped stores
MaxStoreCalls == 3

\* values kept under a key; "{}" is the empty dict
StoreValues == {"{}", "d1", "d2"}

\* a dict over StoreKeys; a key the dict does not hold maps to "absent"
StoreDicts == [StoreKeys -> StoreValues \cup {"absent"}]
EmptyDict == [k \in StoreKeys |-> "absent"]

\* "if not store_data: store_data = {}", and "... or {}"
OrEmpty(store_data) == IF store_data = NoneDict THEN EmptyDict ELSE store_data

\* store_data.get(self._key, {})
ScopedGet(store_data, key) == IF store_data[key] = "absent" THEN "{}" ELSE store_data[key]

\* async_save writing a dict that holds the scope's key only (a mutant of ScopedPut)
ScopedPutAlone(store_data, key, data) ==
    [k \in StoreKeys |-> IF k = key THEN data ELSE "absent"]

\* store_data[self._key] = data
ScopedPut(store_data, key, data) == [store_data EXCEPT ![key] = data]

\* what the underlying store gives to a load: _data, read from the Store of
\* Home Assistant while LocalCalendarStore._data is None
Underlying ==
    IF st_kind = "local" /\ st_data = NoneDict THEN OrEmpty(st_disk.content) ELSE OrEmpty(st_data)

\* the underlying async_load has to wait for the Store of Home Assistant
\* (LocalCalendarStore.async_load, "if self._data is None")
MustAwait == st_kind = "local" /\ st_data = NoneDict

\* what every store action leaves alone
StoreFrame ==
    UNCHANGED <<syncVars, codecVars, loopVars, exit_code, normVars, clientVars, promptVars>>

\* the underlying store is an InMemoryCalendarStore or a LocalCalendarStore
\* over an entry the Store of Home Assistant may already hold
StoreInit ==
    /\ SyncIdle /\ interactive = FALSE
    /\ CodecIdle /\ WindowInit
    /\ loop = "none" /\ sync_count = 0 /\ exit_code = "none"
    /\ NormIdle /\ ClientIdle /\ PromptIdle
    /\ st_kind \in {"memory", "local"}
    /\ st_data = NoneDict
    /\ \E content \in {NoneDict} \cup {d \in StoreDicts : d["k1"] = "absent" /\ d["k2"] \in {"absent", "d1"}} :
          /\ st_kind = "memory" => content = NoneDict
          /\ st_disk = [content |-> content, pending |-> FALSE]
    /\ st_task = << >>

\* every call made so far has returned
Quiet == \A n \in 1..Len(st_task) : st_task[n].pc = "done"

\* ScopedCalendarStore.async_save(data) up to the first point where it waits:
\* with _data at hand the load, the assignment and the underlying async_save
\* run without a break
ScAsyncSave(key, data) ==
    /\ Len(st_task) < MaxStoreCalls
    /\ IF MustAwait
       THEN /\ st_task' = Append(st_task, [key |-> key, op |-> "save", data |-> data,
                                           before |-> Underlying, pc |-> "await", result |-> "none"])
            /\ UNCHANGED <<st_data, st_disk>>
       ELSE /\ st_task' = Append(st_task, [key |-> key, op |-> "save", data |-> data,
                                           before |-> Underlying, pc |-> "done", result |-> "none"])
            /\ st_data' = ScopedPut(OrEmpty(st_data), key, data)
            /\ st_disk' = [st_disk EXCEPT !.pending = (st_kind = "local")]
    /\ UNCHANGED st_kind
    /\ StoreFrame

\* ScopedCalendarStore.async_load() up to the first point where it waits
ScAsyncLoad(key) ==
    /\ Len(st_task) < MaxStoreCalls
    /\ st_task' = Append(st_task,
           [key |-> key, op |-> "load", data |-> "none", before |-> Underlying,
            pc |-> IF MustAwait THEN "await" ELSE "done",
            result |-> IF MustAwait THEN "none" ELSE ScopedGet(OrEmpty(st_data), key)])
    /\ UNCHANGED <<st_kind, st_data, st_disk>>
    /\ StoreFrame

\* what "await self._store.async_load() or {}" may give to a call that waited:
\* a new empty dict when the entry is absent or empty; else the dict of the
\* entry, which is either a dict of its own or, when the Store hands one
\* object to every caller that waited, the dict another call has written to
\* since
Loaded ==
    IF OrEmpty(st_disk.content) = EmptyDict THEN {EmptyDict}
    ELSE {st_disk.content} \cup (IF st_data = NoneDict THEN {} ELSE {st_data})

\* the Store of Home Assistant answers: LocalCalendarStore.async_load assigns
\* self._data = ... or {} and returns it, and the scoped call goes on to its end
StResume(n) ==
    /\ n \in 1..Len(st_task)
    /\ st_task[n].pc = "await"
    /\ \E loaded \in Loaded :
       LET call   == st_task[n]
       IN  IF call.op = "save"
           THEN /\ st_data' = ScopedPut(loaded, call.key, call.data)
                /\ st_disk' = [st_disk EXCEPT !.pending = TRUE]
                /\ st_task' = [st_task EXCEPT ![n].pc = "done"]
           ELSE /\ st_data' = loaded
                /\ st_disk' = st_disk
                /\ st_task' = [st_task EXCEPT ![n].pc = "done",
                                              ![n].result = ScopedGet(loaded, call.key)]
    /\ UNCHANGED st_kind
    /\ StoreFrame

\* the delayed save of LocalCalendarStore.async_save is written
StFlush ==
    /\ st_disk.pending
    /\ st_disk' = [content |-> st_data, pending |-> FALSE]
    /\ UNCHANGED <<st_kind, st_data, st_task>>
    /\ StoreFrame

\* one call at a time: a call is made when the one before has returned
StoreNext ==
    \/ \E key \in ScopeKeys : \E data \in StoreValues : Quiet /\ ScAsyncSave(key, data)
    \/ \E key \in ScopeKeys : Quiet /\ ScAsyncLoad(key)
    \/ \E n \in 1..MaxStoreCalls : StResume(n)
    \/ StFlush

StoreSpec == StoreInit /\ [][StoreNext]_vars

\* ------------------------------------------------------------------------
\* Properties of the scoped store (checked under StoreSpec)
\* ------------------------------------------------------------------------

\* C29: when async_save(data) of a scope has returned, the underlying store
\* maps the scope's key to data and every other key to what it held before
\* the call; an async_load of the same scope right after it returns data; and
\* an async_load over an empty or absent underlying store returns the empty
\* mapping.
C29_ScopedSaveFrame ==
    /\ (st_task # << >> /\ st_task[Len(st_task)].op = "save"
                        /\ st_task[Len(st_task)].pc = "done") =>
          LET call == st_task[Len(st_task)]
          IN  /\ st_data # NoneDict
              /\ st_data[call.key] = call.data
              /\ \A k \in StoreKeys \ {call.key} : st_data[k] = call.before[k]
    /\ \A n \in 1..Len(st_task) :
          (n > 1 /\ st_task[n].op = "load" /\ st_task[n].pc = "done"
                 /\ st_task[n - 1].op = "save" /\ st_task[n - 1].key = st_task[n].key) =>
              st_task[n].result = st_task[n - 1].data
    /\ \A n \in 1..Len(st_task) :
          (st_task[n].op = "load" /\ st_task[n].pc = "done"
                                  /\ st_task[n].before = EmptyDict) =>
              st_task[n].result = "{}"

\* over a store holding k2 and k3, scope k1 has saved d1 and loaded it again
C29_Witness ==
    /\ Len(st_task) = 2
    /\ st_task[1].op = "save" /\ st_task[1].key = "k1" /\ st_task[1].data = "d1"
    /\ st_task[1].before["k2"] = "d1" /\ st_task[1].before["k3"] = "d2"
    /\ st_task[2].op = "load" /\ st_task[2].pc = "done" /\ st_task[2].result = "d1"
    /\ st_data # NoneDict /\ st_data["k2"] = "d1" /\ st_data["k3"] = "d2"

\* ------------------------------------------------------------------------
\* HomeAssistantClient.get_events on its own (ha_client.py)
\* ------------------------------------------------------------------------

\* raw events in one response
MaxBatch == 2

\* the clock runs up to this instant before get_events is called
MaxClock == 1

\* the forms a raw start may take
StartShapes ==
    DictShapes \cup {"str_date", "str_dateTime", "str_empty", "str_bad", "native", "missing"}

\* the forms a raw end may take
EndShapes == {"date", "dateTime", "str_bad", "missing"}

\* raw events of a response: every form of start with every form of end
NormRawEvents ==
    { [has_uid |-> TRUE, uid |-> Uid_a, summary |-> <<"S">>, description |-> EmptyStr,
       start |-> [shape |-> s, at |-> 2], end |-> [shape |-> e, at |-> 3]] :
        s \in StartShapes, e \in EndShapes }

\* what the steps of the normalizer leave alone
NormFrame ==
    UNCHANGED <<syncVars, codecVars, pass_now, loop, sync_count, start_date, end_date,
                exit_code, clientVars, storeVars, promptVars>>

\* a response of the calendar API is about to be fetched
NormInit ==
    /\ SyncIdle /\ interactive = FALSE
    /\ CodecIdle /\ WindowInit
    /\ loop = "none" /\ sync_count = 0 /\ exit_code = "none"
    /\ ClientIdle /\ StoreIdle /\ PromptIdle
    /\ nz_batch \in SeqUpTo(NormRawEvents, MaxBatch)
    /\ nz_result = [status |-> "none", events |-> << >>]

\* time passes before the call
NzTick ==
    /\ nz_result.status = "none"
    /\ now < MaxClock
    /\ now' = now + 1
    /\ UNCHANGED normVars
    /\ NormFrame

\* a timestamp _parse_datetime has no instant for
NoInstant(dt_value) == dt_value.shape # "native" /\ DtStr(dt_value) \in {"", "no_timestamp"}

\* get_events with a timestamp that cannot be parsed raising out of the call
\* (a mutant of NzGetEvents)
NzGetEventsStrict ==
    /\ nz_result.status = "none"
    /\ \/ nz_result' = [status |-> "RequestException", events |-> << >>]
       \/ /\ \E n \in 1..Len(nz_batch) : NoInstant(nz_batch[n].start) \/ NoInstant(nz_batch[n].end)
          /\ nz_result' = [status |-> "raised", events |-> << >>]
       \/ /\ \A n \in 1..Len(nz_batch) : ~NoInstant(nz_batch[n].start) /\ ~NoInstant(nz_batch[n].end)
          /\ nz_result' = [status |-> "returned", events |-> NormalizeAll(nz_batch)]
    /\ UNCHANGED <<nz_batch, now>>
    /\ NormFrame

\* HomeAssistantClient.get_events: the request fails with a RequestException
\* that is raised again (lines 75-77), or every event of the response is
\* normalized and the list returned (65-73)
NzGetEvents ==
    /\ nz_result.status = "none"
    /\ \/ nz_result' = [status |-> "RequestException", events |-> << >>]
       \/ nz_result' = [status |-> "returned", events |-> NormalizeAll(nz_batch)]
    /\ UNCHANGED <<nz_batch, now>>
    /\ NormFrame

NormNext == NzTick \/ NzGetEvents

NormSpec == NormInit /\ [][NormNext]_vars

\* ------------------------------------------------------------------------
\* Properties of the normalizer (checked under NormSpec)
\* ------------------------------------------------------------------------

\* the start representations the parser accepts
AcceptedStart == {"date", "dateTime", "str_date", "str_dateTime", "native"}

\* the start has no time-of-day component in the payload
DateOnly(dt_value) == dt_value.shape \in {"date", "str_date"}

\* C24: for a raw event whose start is in an accepted representation, the
\* normalized event is all-day exactly when the start is date-only, whatever
\* the end is.
C24_AllDayIffDateOnly ==
    nz_result.status = "returned" =>
        \A n \in 1..Len(nz_batch) :
            nz_batch[n].start.shape \in AcceptedStart =>
                (nz_result.events[n].all_day <=> DateOnly(nz_batch[n].start))

\* C25: get_events fails only with the exception of the request; when the
\* response arrived, every raw event is returned in its place, a start or end
\* that is missing or is no timestamp is replaced by the current instant, and
\* the other start and end values are the instants of the payload.
C25_ParsingFailsSoft ==
    /\ nz_result.status \in {"none", "RequestException", "returned"}
    /\ nz_result.status = "returned" =>
          /\ Len(nz_result.events) = Len(nz_batch)
          /\ \A n \in 1..Len(nz_batch) :
                /\ nz_result.events[n].uid = nz_batch[n].uid
                /\ nz_result.events[n].summary = nz_batch[n].summary
                /\ nz_result.events[n].start =
                       IF NoInstant(nz_batch[n].start) THEN now ELSE nz_batch[n].start.at
                /\ nz_result.events[n].end =
                       IF NoInstant(nz_batch[n].end) THEN now ELSE nz_batch[n].end.at

\* a response whose first event has a start that is no timestamp and a missing
\* end, and whose second event is sound, has been returned
C25_Witness ==
    /\ nz_result.status = "returned"
    /\ Len(nz_batch) = 2
    /\ nz_batch[1].start.shape = "str_bad" /\ nz_batch[1].end.shape = "missing"
    /\ nz_batch[2].start.shape = "dateTime" /\ nz_batch[2].end.shape = "dateTime"
    /\ now = 1
    /\ nz_result.events[1].start = 1 /\ nz_result.events[1].end = 1
    /\ nz_result.events[2].start = 2 /\ nz_result.events[2].end = 3

\* ------------------------------------------------------------------------
\* A pass while the owner of the destination calendar removes events
\* ------------------------------------------------------------------------

\* the owner removes an event from the destination calendar after
\* get_synced_events has returned; delete_event for it then finds no event
\* (o365_client.py 273-276) and returns False
OwnerRemovesEvent ==
    /\ pc \in {"reconcile", "delete"}
    /\ \E n \in 1..Len(o365_store) : o365_store' = RemoveAt(o365_store, n)
    /\ UNCHANGED <<delete_removed, ha_server, next_id, pc, idx, ha_events, o365_events,
                   created, updated, deleted, result, calls, store0, src0, repeat,
                   passes, edits, failed_at, window, interactive, invoked>>
    /\ UNCHANGED <<codecVars, loopVars, auxVars>>

CountNext ==
    \/ StartSync
    \/ TestConnection
    \/ Authenticate
    \/ FetchHaCalendar
    \/ FetchO365
    \/ ReconcileEvent
    \/ ReconcileEnd
    \/ DeleteRemoved
    \/ DeleteEnd
    \/ OwnerRemovesEvent

CountSpec == Init /\ [][CountNext]_vars

\* ------------------------------------------------------------------------
\* Properties of the counts of a pass (checked under CountSpec)
\* ------------------------------------------------------------------------

\* C31: when a pass has returned True, created is the number of events it
\* added to the destination, updated the number it changed, and deleted the
\* number of destination events it removed; a delete_event call that found
\* no event is not counted.
C31_CountsMatchDestination ==
    (pc = "done" /\ result = "ok") =>
        /\ created = Cardinality({m \in CallsOf("create") : calls[m].ok})
        /\ updated = Cardinality({m \in CallsOf("update") : calls[m].ok})
        /\ deleted = Cardinality({m \in CallsOf("delete") : calls[m].ok /\ calls[m].found})

\* ------------------------------------------------------------------------
\* Passes that follow one another without a failure, over a source at rest
\* ------------------------------------------------------------------------

\* a step of a pass in which no call fails
DrainNext ==
    /\ \/ StartSync
       \/ TestConnection
       \/ Authenticate
       \/ FetchHaCalendar
       \/ FetchO365
       \/ ReconcileEvent
       \/ ReconcileEnd
       \/ DeleteRemoved
       \/ DeleteEnd
    /\ result' # "failed"

DrainSpec == Init /\ [][DrainNext]_vars

\* the passes are run: by the loop of run_continuous, or by whoever starts the
\* script again
DrainLiveSpec == DrainSpec /\ WF_vars(DrainNext)

\* ------------------------------------------------------------------------
\* Properties of duplicated mirrors (checked under DrainLiveSpec)
\* ------------------------------------------------------------------------

\* C32: with deletion enabled and no failures, a pass over a destination that
\* holds prefixed events with the marker of a uid the source does not have
\* removes at least one of them, and in the end none is left; while the uid is
\* in the source no delete_event call goes to an event of that uid.
C32_DuplicatesDrained ==
    /\ \A u \in {Uid_a, Uid_b} :
          (delete_removed /\ PlacesOf(u) = {}) ~> (MirrorsOf(o365_store, u) = {})
    /\ [](\A u \in {Uid_a, Uid_b} :
            (PassReturnedTrue /\ delete_removed /\ u \notin DictKeys(ha_events)
                              /\ MirrorsOf(store0, u) # {}) =>
                Cardinality(MirrorsOf(o365_store, u)) < Cardinality(MirrorsOf(store0, u)))
    /\ [](\A u \in {Uid_a, Uid_b} :
            (pc \in {"delete", "done"} /\ u \in DictKeys(ha_events)) =>
                /\ \A m \in CallsOf("delete") : calls[m].uid # u
                /\ Cardinality(MirrorsOf(o365_store, u)) >= Cardinality(MirrorsOf(store0, u)))

\* a pass has removed one of two prefixed events that carry the marker of a
\* uid the source does not have
C32_Witness ==
    /\ PassReturnedTrue
    /\ delete_removed
    /\ PlacesOf(Uid_a) = {}
    /\ Cardinality(MirrorsOf(store0, Uid_a)) = 2
    /\ Cardinality(MirrorsOf(o365_store, Uid_a)) = 1
    /\ deleted = 1

\* ------------------------------------------------------------------------
\* Scoped stores whose calls overlap
\* ------------------------------------------------------------------------

\* calls are made at any time, also while another call waits
ConcStoreNext ==
    \/ \E key \in ScopeKeys : \E data \in StoreValues : ScAsyncSave(key, data)
    \/ \E key \in ScopeKeys : ScAsyncLoad(key)
    \/ \E n \in 1..MaxStoreCalls : StResume(n)
    \/ StFlush

ConcStoreSpec == StoreInit /\ [][ConcStoreNext]_vars

\* ------------------------------------------------------------------------
\* Properties of overlapping calls (checked under ConcStoreSpec)
\* ------------------------------------------------------------------------

\* C33: when two scoped stores with different keys have each run one
\* async_save over the same underlying store and both calls have returned,
\* the underlying store holds under each key the data its scope saved.
C33_NoLostUpdate ==
    (/\ Len(st_task) = 2
     /\ Quiet
     /\ st_task[1].op = "save" /\ st_task[2].op = "save"
     /\ st_task[1].key # st_task[2].key) =>
        /\ st_data # NoneDict
        /\ st_data[st_task[1].key] = st_task[1].data
        /\ st_data[st_task[2].key] = st_task[2].data

====
